---- MODULE Spec2Model ----
(***************************************************************************)
(* A model of the xorxcpp Kademlia node: the 160-bit identifier algebra,   *)
(* the k-bucket routing table with its per-bucket mutexes, and the         *)
(* protocol engine's store / find_value path over the text RPC framing.    *)
(*                                                                         *)
(* Identifiers are kept at their real width: an ID is a sequence of        *)
(* KEY_BYTES bytes, the table has KEY_BITS buckets of K_VALUE peers.       *)
(* Strings and payloads are sequences of character codes, so that the      *)
(* framing, std::stoi and the hex conversions are computed on the text.    *)
(*                                                                         *)
(* Spec, SpecClosest and SpecIndex exercise one routing table; SpecNet is  *)
(* a network of two nodes exchanging datagrams, SpecInbound the same nodes *)
(* receiving datagrams from other hosts.  SpecCalls observes one API call  *)
(* with its callbacks, SpecExpiry the local store under expireKeys and an  *)
(* adjustable clock, SpecUpsert inbound RPCs on filled buckets, SpecCodec  *)
(* the wire text of single messages, SpecNat and SpecPunch the hole        *)
(* puncher's NAT classification and its connection attempts.  Of the       *)
(* maintenance thread, refreshBuckets and republishKeys are outside the    *)
(* model; STUN messages are represented by the endpoints they carry.       *)
(***************************************************************************)
EXTENDS Integers, Sequences, FiniteSets, TLC

(***************************************************************************)
(* Program constants                                                       *)
(***************************************************************************)
KEY_BITS == 160

KEY_BYTES == KEY_BITS \div 8

K_VALUE == 20

INACTIVE_THRESHOLD == 15 * 60 * 1000

(***************************************************************************)
(* Bounds of the model                                                     *)
(***************************************************************************)
\* routing-table calls (add / remove / closest) started in one behaviour
MaxCalls == 2

\* clock advances in one behaviour, each of one liveness threshold
MaxTicks == 1

\* the wall clock (ms) when the model starts
StartMillis == 10000000

TickStep == INACTIVE_THRESHOLD

\* the threads that call into the routing table: the application's thread,
\* which may make any call, and the receiver thread, whose handleRPC adds the
\* sender of each message with a descriptor built on the spot
Threads == {"main", "receiver"}

NoThread == "none"

(***************************************************************************)
(* NodeID: 20 bytes, XOR distance, MSB-first bit access, byte-wise order   *)
(***************************************************************************)
\* bitwise exclusive or of two naturals
RECURSIVE XorBits(_, _)
XorBits(a, b) ==
    IF a = 0 THEN b
    ELSE IF b = 0 THEN a
    ELSE (((a % 2) + (b % 2)) % 2) + 2 * XorBits(a \div 2, b \div 2)

\* uint8_t ^ uint8_t
XorByte(a, b) == XorBits(a, b)

\* NodeID::NodeID(): all bytes zero
ZeroID == [i \in 1..KEY_BYTES |-> 0]

\* an ID given by its first and its last byte, zero in between
MkID(first, last) ==
    [i \in 1..KEY_BYTES |-> IF i = 1 THEN first ELSE IF i = KEY_BYTES THEN last ELSE 0]

\* NodeID::distance
distance(a, b) == [i \in 1..KEY_BYTES |-> XorByte(a[i], b[i])]

\* getBit counting bits from the least significant end of each byte
getBitLsbFirst(id, position) ==
    LET bytePos == position \div 8
        bitPos == position % 8
    IN  (id[bytePos + 1] \div (2 ^ bitPos)) % 2 # 0

\* NodeID::getBit: bytePos = position / 8, bitPos = 7 - position % 8
getBit(id, position) ==
    LET bytePos == position \div 8
        bitPos == 7 - (position % 8)
    IN  (id[bytePos + 1] \div (2 ^ bitPos)) % 2 # 0

\* NodeID::operator< : std::array's lexicographic comparison
RECURSIVE LessFrom(_, _, _)
LessFrom(a, b, i) ==
    IF i > KEY_BYTES THEN FALSE
    ELSE IF a[i] < b[i] THEN TRUE
    ELSE IF a[i] > b[i] THEN FALSE
    ELSE LessFrom(a, b, i + 1)

IDLess(a, b) == LessFrom(a, b, 1)


(***************************************************************************)
(* Node: the peer descriptor {id, ip, port, lastSeen}                      *)
(***************************************************************************)
\* Node::Node: lastSeen is the clock at construction
Node(id, ip, port, t) == [id |-> id, ip |-> ip, port |-> port, lastSeen |-> t]

\* isActive with the threshold itself still counted as active
isActiveInclusive(node, t) ==
    /\ t >= node.lastSeen
    /\ t - node.lastSeen <= INACTIVE_THRESHOLD

\* Node::isActive: (now - lastSeen) < INACTIVE_THRESHOLD on uint64_t; a
\* lastSeen later than now wraps the difference to a value above the threshold
isActive(node, t) ==
    /\ t >= node.lastSeen
    /\ t - node.lastSeen < INACTIVE_THRESHOLD

(***************************************************************************)
(* KBucket: std::list<NodePtr>, head = least recently seen                 *)
(***************************************************************************)
\* std::find_if by ID: the position of the first match, 0 for end()
FindIf(nodes, id) ==
    IF \E i \in 1..Len(nodes) : nodes[i].id = id
    THEN CHOOSE i \in 1..Len(nodes) :
            /\ nodes[i].id = id
            /\ \A j \in 1..(i - 1) : nodes[j].id # id
    ELSE 0

\* std::list::erase(it)
Erase(nodes, it) ==
    IF it \in 1..Len(nodes)
    THEN SubSeq(nodes, 1, it - 1) \o SubSeq(nodes, it + 1, Len(nodes))
    ELSE nodes

\* KBucketApply admitting a newcomer while size <= K_VALUE
KBucketApplyOffByOne(nodes, it, node, t) ==
    IF it # 0
    THEN [nodes |-> Append(Erase(nodes, it), node), result |-> TRUE, branch |-> "move"]
    ELSE IF Len(nodes) <= K_VALUE
    THEN [nodes |-> Append(nodes, node), result |-> TRUE, branch |-> "append"]
    ELSE IF ~isActive(Head(nodes), t)
    THEN [nodes |-> Append(Tail(nodes), node), result |-> TRUE, branch |-> "replace"]
    ELSE [nodes |-> nodes, result |-> FALSE, branch |-> "reject"]

\* KBucketApply evicting the first inactive peer wherever it stands
KBucketApplyAnyStale(nodes, it, node, t) ==
    LET stale == {i \in 1..Len(nodes) : ~isActive(nodes[i], t)}
    IN  IF it # 0
        THEN [nodes |-> Append(Erase(nodes, it), node), result |-> TRUE, branch |-> "move"]
        ELSE IF Len(nodes) < K_VALUE
        THEN [nodes |-> Append(nodes, node), result |-> TRUE, branch |-> "append"]
        ELSE IF stale # {}
        THEN [nodes |-> Append(Erase(nodes, CHOOSE i \in stale : \A j \in stale : i <= j), node),
              result |-> TRUE, branch |-> "replace"]
        ELSE [nodes |-> nodes, result |-> FALSE, branch |-> "reject"]

\* KBucketApply replacing a present peer where it stands
KBucketApplyInPlace(nodes, it, node, t) ==
    IF it # 0
    THEN [nodes |-> [nodes EXCEPT ![it] = node], result |-> TRUE, branch |-> "move"]
    ELSE IF Len(nodes) < K_VALUE
    THEN [nodes |-> Append(nodes, node), result |-> TRUE, branch |-> "append"]
    ELSE IF ~isActive(Head(nodes), t)
    THEN [nodes |-> Append(Tail(nodes), node), result |-> TRUE, branch |-> "replace"]
    ELSE [nodes |-> nodes, result |-> FALSE, branch |-> "reject"]

\* KBucket::addNode after the find_if: move to tail, append, replace the
\* inactive head, or reject
KBucketApply(nodes, it, node, t) ==
    IF it # 0
    THEN [nodes |-> Append(Erase(nodes, it), node), result |-> TRUE, branch |-> "move"]
    ELSE IF Len(nodes) < K_VALUE
    THEN [nodes |-> Append(nodes, node), result |-> TRUE, branch |-> "append"]
    ELSE IF ~isActive(Head(nodes), t)
    THEN [nodes |-> Append(Tail(nodes), node), result |-> TRUE, branch |-> "replace"]
    ELSE [nodes |-> nodes, result |-> FALSE, branch |-> "reject"]

\* KBucket::addNode, the whole body under the bucket mutex
KBucketAddNode(nodes, node, t) == KBucketApply(nodes, FindIf(nodes, node.id), node, t)

\* KBucket::removeNode
KBucketRemoveNode(nodes, id) ==
    LET it == FindIf(nodes, id)
    IN  IF it # 0
        THEN [nodes |-> Erase(nodes, it), result |-> TRUE, branch |-> "removed"]
        ELSE [nodes |-> nodes, result |-> FALSE, branch |-> "absent"]

\* KBucket::getNode: the stored descriptor, or <<>> for nullptr
KBucketGetNode(nodes, id) ==
    LET it == FindIf(nodes, id)
    IN  IF it # 0 THEN <<nodes[it]>> ELSE <<>>

(***************************************************************************)
(* RoutingTable                                                            *)
(***************************************************************************)
BucketIndexes == 0..(KEY_BITS - 1)

\* RoutingTable::RoutingTable: KEY_BITS empty buckets
EmptyTable == [b \in BucketIndexes |-> <<>>]

\* the loop of getBucketIndex from position i on, eight positions at a time:
\* the first position whose bit is 1, KEY_BITS - 1 when the loop runs to its end
RECURSIVE FirstSetBit(_, _)
FirstSetBit(d, i) ==
    IF i >= KEY_BITS THEN KEY_BITS - 1
    ELSE LET ones == {j \in i..(i + 7) : getBit(d, j)}
         IN  IF ones # {} THEN CHOOSE j \in ones : \A k \in ones : j <= k
             ELSE FirstSetBit(d, i + 8)

\* RoutingTable::getBucketIndex
getBucketIndex(local, id) == FirstSetBit(distance(local, id), 0)

\* RoutingTable::addNode that skips the comparison with the local ID
RoutingTableAddNodeAnyID(local, bks, node, t) ==
    LET b == getBucketIndex(local, node.id)
        r == KBucketAddNode(bks[b], node, t)
    IN  [buckets |-> [bks EXCEPT ![b] = r.nodes], result |-> r.result, branch |-> r.branch]

\* RoutingTable::addNode as one call
RoutingTableAddNode(local, bks, node, t) ==
    IF node.id = local
    THEN [buckets |-> bks, result |-> FALSE, branch |-> "self"]
    ELSE LET b == getBucketIndex(local, node.id)
             r == KBucketAddNode(bks[b], node, t)
         IN  [buckets |-> [bks EXCEPT ![b] = r.nodes], result |-> r.result,
              branch |-> r.branch]

\* RoutingTable::getNode
RoutingTableGetNode(local, bks, id) == KBucketGetNode(bks[getBucketIndex(local, id)], id)

\* the loop over buckets_ calling getNodes(), eight buckets at a time: all
\* peers in bucket order
RECURSIVE CollectFrom(_, _)
CollectFrom(bks, b) ==
    IF b >= KEY_BITS THEN <<>>
    ELSE bks[b] \o bks[b + 1] \o bks[b + 2] \o bks[b + 3] \o bks[b + 4] \o bks[b + 5]
         \o bks[b + 6] \o bks[b + 7] \o CollectFrom(bks, b + 8)

\* RoutingTable::getAllNodes
getAllNodes(bks) == CollectFrom(bks, 0)

\* a peer paired with its distance to the target
Keyed(node, target) == [node |-> node, dist |-> distance(node.id, target)]

\* the comparator of a sort that orders peers by their own IDs
ByOwnID(a, b) == IDLess(a.node.id, b.node.id)

\* the comparator of sortNodesByDistance: distA < distB
ByDistance(a, b) == IDLess(a.dist, b.dist)

\* one insertion of the sort: x goes before the first element it precedes
InsertSorted(sorted, x) ==
    LET after == {i \in 1..Len(sorted) : ByDistance(x, sorted[i])}
        at == IF after = {} THEN Len(sorted) + 1
              ELSE CHOOSE i \in after : \A j \in after : i <= j
    IN  SubSeq(sorted, 1, at - 1) \o <<x>> \o SubSeq(sorted, at, Len(sorted))

RECURSIVE SortKeyed(_)
SortKeyed(keyed) ==
    IF keyed = <<>> THEN <<>>
    ELSE InsertSorted(SortKeyed(SubSeq(keyed, 1, Len(keyed) - 1)), keyed[Len(keyed)])

\* utils::sortNodesByDistance: std::sort by XOR distance to the target
sortNodesByDistance(nodes, target) ==
    LET keyed == [i \in 1..Len(nodes) |-> Keyed(nodes[i], target)]
        sorted == SortKeyed(keyed)
    IN  [i \in 1..Len(sorted) |-> sorted[i].node]

\* RoutingTable::findClosestNodes: collect, sort, resize
findClosestNodes(bks, target, count) ==
    LET sorted == sortNodesByDistance(getAllNodes(bks), target)
    IN  IF Len(sorted) > count THEN SubSeq(sorted, 1, count) ELSE sorted


(***************************************************************************)
(* Text: a std::string or byte vector is a sequence of character codes     *)
(***************************************************************************)
\* LocalIP, the address the constructor gives the local node
LocalIP == <<49, 50, 55, 46, 48, 46, 48, 46, 49>>

\* OtherIP, an address no node of the model listens on
OtherIP == <<49, 48, 46, 48, 46, 48, 46, 50>>

\* ':' the field separator of the wire text
Colon == 58

\* '\n' the separator of the peers listed in a reply
Newline == 10

\* std::to_string of a non-negative integer
RECURSIVE to_string(_)
to_string(n) ==
    IF n < 10 THEN <<48 + n>> ELSE to_string(n \div 10) \o <<48 + (n % 10)>>

\* one lower-case hex digit, as std::hex writes it
HexChar(v) == IF v < 10 THEN 48 + v ELSE 87 + v

\* two hex digits per byte: std::hex << std::setw(2) << std::setfill('0')
HexOf(bytes) ==
    [i \in 1..(2 * Len(bytes)) |->
        HexChar(IF i % 2 = 1 THEN bytes[(i + 1) \div 2] \div 16 ELSE bytes[i \div 2] % 16)]

\* NodeID::toString: 40 lower-case hex characters
NodeIDToString(id) == HexOf(id)

\* a variant of DHTKeyToString that takes 0x7f for a printable character
DHTKeyToStringThroughDel(data) ==
    IF data # <<>> /\ \A i \in 1..Len(data) : data[i] >= 32 /\ data[i] <= 127
    THEN data
    ELSE <<48, 120>> \o HexOf(data)

\* DHTKey::toString: the bytes themselves when all are printable ASCII and
\* there is at least one, "0x" and the hex digits otherwise
DHTKeyToString(data) ==
    IF data # <<>> /\ \A i \in 1..Len(data) : data[i] >= 32 /\ data[i] <= 126
    THEN data
    ELSE <<48, 120>> \o HexOf(data)

\* isspace in the C locale
IsSpace(c) == c = 32 \/ (c >= 9 /\ c <= 13)

\* the value of a digit in the base, or -1 when the character is no digit of it
DigitValue(c, base) ==
    LET v == IF c >= 48 /\ c <= 57 THEN c - 48
             ELSE IF c >= 97 /\ c <= 122 THEN c - 87
             ELSE IF c >= 65 /\ c <= 90 THEN c - 55
             ELSE base
    IN  IF v < base THEN v ELSE -1

\* the index of the first character at or after i that is not white space
RECURSIVE SkipSpace(_, _)
SkipSpace(str, i) ==
    IF i <= Len(str) /\ IsSpace(str[i]) THEN SkipSpace(str, i + 1) ELSE i

\* strtol's digit loop from index i, accumulating the negated magnitude n so
\* that the whole range of int is covered: digits read, overflow seen, value
RECURSIVE Accumulate(_, _, _, _, _, _)
Accumulate(str, i, base, n, read, over) ==
    IF i > Len(str) \/ DigitValue(str[i], base) < 0
    THEN [n |-> n, read |-> read, over |-> over]
    ELSE LET d == DigitValue(str[i], base)
             lim == (2147483647 - d) \div base
             fits == /\ ~over
                     /\ \/ n >= -lim
                        \/ n = (-lim) - 1 /\ (2147483647 - d) % base = base - 1
         IN  Accumulate(str, i + 1, base, IF fits THEN (n * base) - d ELSE n,
                        read + 1, ~fits)

\* std::stoi(str, nullptr, base): white space, a sign, for base 16 a "0x"
\* that a hex digit follows, then the longest run of digits; it throws
\* invalid_argument without a digit and out_of_range outside int
stoi(str, base) ==
    LET s == SkipSpace(str, 1)
        signed == s <= Len(str) /\ str[s] \in {43, 45}
        negative == signed /\ str[s] = 45
        p == IF signed THEN s + 1 ELSE s
        prefixed == /\ base = 16
                    /\ p + 2 <= Len(str)
                    /\ str[p] = 48
                    /\ str[p + 1] \in {120, 88}
                    /\ DigitValue(str[p + 2], 16) >= 0
        q == IF prefixed THEN p + 2 ELSE p
        a == Accumulate(str, q, base, 0, 0, FALSE)
        thrown == a.read = 0 \/ a.over \/ (~negative /\ a.n < -2147483647)
    IN  [ok |-> ~thrown, value |-> IF thrown THEN 0 ELSE IF negative THEN a.n ELSE -a.n]

\* NodeID::NodeID(const std::string& hex): 40 characters, each pair through
\* std::stoi in base 16 and cast to uint8_t; any throw leaves no NodeID
NodeIDFromHex(hex) ==
    IF Len(hex) # KEY_BYTES * 2 THEN [ok |-> FALSE, id |-> ZeroID]
    ELSE LET byte(i) == stoi(SubSeq(hex, (2 * i) - 1, 2 * i), 16)
         IN  IF \A i \in 1..KEY_BYTES : byte(i).ok
             THEN [ok |-> TRUE, id |-> [i \in 1..KEY_BYTES |-> byte(i).value % 256]]
             ELSE [ok |-> FALSE, id |-> ZeroID]

\* std::string msg(buffer): the characters before the first NUL
CString(buffer) ==
    LET nuls == {i \in 1..Len(buffer) : buffer[i] = 0}
    IN  IF nuls = {} THEN buffer
        ELSE SubSeq(buffer, 1, (CHOOSE i \in nuls : \A j \in nuls : i <= j) - 1)

\* the loop over msg.find(':', pos): the fields between the separators
RECURSIVE SplitFrom(_, _)
SplitFrom(msg, pos) ==
    LET hits == {i \in pos..Len(msg) : msg[i] = Colon}
    IN  IF hits = {} THEN <<SubSeq(msg, pos, Len(msg))>>
        ELSE LET found == CHOOSE i \in hits : \A j \in hits : i <= j
             IN  <<SubSeq(msg, pos, found - 1)>> \o SplitFrom(msg, found + 1)

\* utils::hashKey: SHA-1 of the key bytes.  The digest is computed by the
\* crypto library; the model keeps that it is a fixed function of the bytes
\* into the ID space
RECURSIVE Mix(_, _)
Mix(key, h) ==
    IF key = <<>> THEN h ELSE Mix(Tail(key), ((h * 31) + Head(key)) % 256)

hashKey(key) == [i \in 1..KEY_BYTES |-> (Mix(key, 7) + (i * 17)) % 256]

(***************************************************************************)
(* State                                                                   *)
(***************************************************************************)
VARIABLES
    localID,    \* RoutingTable::localID_
    buckets,    \* RoutingTable::buckets_: bucket index -> KBucket::nodes_
    mutex,      \* KBucket::mutex_ of each bucket: the thread holding it, or NoThread
    pc,         \* where each calling thread stands inside its call
    arg,        \* the call's arguments and locals (node, bucket index, iterator)
    ret,        \* what each thread's last completed call returned
    now,        \* utils::getCurrentTimeMillis()
    calls,      \* calls started so far
    ticks,      \* clock advances so far
    closest,    \* the last findClosestNodes call: its arguments and its result
    ix,         \* the last getBucketIndex call: its arguments and its result
    kad,        \* each Kademlia object: localNode_, running_, routingTable_, storage_, ...
    net,        \* the UDP datagrams in flight
    history,    \* the store() calls made so far: <<node, key bytes, value bytes>>
    stores,     \* store() calls so far
    injected,   \* datagrams sent by hosts other than the model's nodes so far
    call,       \* the last observed API call: its arguments, sends and callbacks
    hp          \* the HolePuncher object: connectionInfo_, pendingHolePunches_

rtVars == <<localID, buckets, mutex, pc, arg, ret, now, calls, ticks>>

\* what the stepwise routing-table calls leave alone
netVars == <<kad, net, history, stores, injected>>

\* the observations of the single-call specifications
callVars == <<call, hp>>

rtFrame == <<closest, ix, netVars, callVars>>

vars == <<rtVars, closest, ix, netVars, callVars>>

(***************************************************************************)
(* Inputs of the routing-table model                                       *)
(***************************************************************************)
\* peers whose first bit is 1: one bucket's worth (and one more) for a local
\* ID whose first bit is 0
FarPeer(j) == MkID(128, j)

\* a peer whose second bit is 1
MidPeer == MkID(64, 0)

\* the peers the table is filled with before the calls of a behaviour
KnownPeer(j) == Node(FarPeer(j), LocalIP, 4000 + j, StartMillis)

\* the table after add(KnownPeer(1)), ..., add(KnownPeer(n)) at StartMillis
RECURSIVE Filled(_, _)
Filled(local, n) ==
    IF n = 0 THEN EmptyTable
    ELSE RoutingTableAddNode(local, Filled(local, n - 1), KnownPeer(n), StartMillis).buckets

\* the tables a behaviour starts from: <<local ID, peers added so far>>
InitTables ==
    { <<ZeroID, 0>>, <<ZeroID, K_VALUE - 1>>, <<ZeroID, K_VALUE>>, <<FarPeer(1), K_VALUE>> }

\* a descriptor of the application's thread: built for this call, or built
\* (with another endpoint) a liveness threshold before the model starts
CallerDescriptors(local, t) ==
    { Node(id, LocalIP, 4001, t) :
        id \in {FarPeer(1), FarPeer(K_VALUE), FarPeer(K_VALUE + 1), MidPeer, local} }
    \cup
    { Node(id, OtherIP, 4002, StartMillis - INACTIVE_THRESHOLD) :
        id \in {FarPeer(1), FarPeer(K_VALUE)} }

\* a descriptor of the receiver thread: the sender of a message, built now
SenderDescriptors(t) ==
    { Node(id, LocalIP, 4002, t) : id \in {FarPeer(K_VALUE), FarPeer(K_VALUE + 1)} }

RemoveIDs == {FarPeer(1), MidPeer}

NoNode == Node(ZeroID, <<>>, 0, 0)

NoArg == [node |-> NoNode, bucket |-> 0, it |-> 0]

NoRet == [op |-> "none", id |-> ZeroID, result |-> FALSE, branch |-> "none", evicted |-> <<>>]

(***************************************************************************)
(* Routing-table calls, step by step under the bucket mutex                *)
(***************************************************************************)
\* a lock_guard that never waits
MutexIgnored(b) == TRUE

\* std::lock_guard on KBucket::mutex_ can be taken
MutexFree(b) == mutex[b] = NoThread

RtInit ==
    /\ \E it \in InitTables :
          /\ localID = it[1]
          /\ buckets = Filled(it[1], it[2])
    /\ mutex = [b \in BucketIndexes |-> NoThread]
    /\ pc = [t \in Threads |-> "idle"]
    /\ arg = [t \in Threads |-> NoArg]
    /\ ret = [t \in Threads |-> NoRet]
    /\ now = StartMillis
    /\ calls = 0
    /\ ticks = 0

\* the nodes of the network model
NetNodes == {1, 2}

\* the local IDs NodeID::random() gave the nodes at construction
NetID(n) == MkID(16 * n, n)

\* the port each node was constructed with
NetPort(n) == 4000 + n

\* an empty std::unordered_map
EmptyMap == [x \in {} |-> <<>>]

\* Kademlia::Kademlia(port, ...): not running, an empty table, an empty store
Constructed(n) ==
    [id |-> NetID(n), ip |-> LocalIP, port |-> NetPort(n), running |-> FALSE,
     terminated |-> FALSE, routingTable |-> EmptyTable, storage |-> EmptyMap,
     storageTimestamps |-> EmptyMap, storageMutex |-> NoThread, refused |-> {}]

\* no API call observed yet
NoCall == [op |-> "none"]

\* the address detectLocalIP() finds on the host's outbound interface: "10.0.0.1"
HostIP == <<49, 48, 46, 48, 46, 48, 46, 49>>

\* HolePuncher::HolePuncher: connectionInfo_ cleared, then detectLocalIP(),
\* which stored the address it found, or nothing when a step of it failed
\* (mutex is the thread that holds HolePuncher::mutex_ between two steps)
HolePuncherConstructed(localIP) ==
    [connectionInfo |-> [publicIP |-> <<>>, publicPort |-> 0, localIP |-> localIP,
                         localPort |-> 0, natType |-> "UNKNOWN"],
     pendingHolePunches |-> {}, mutex |-> NoThread]

NetInit ==
    /\ kad = [n \in NetNodes |-> Constructed(n)]
    /\ net = {}
    /\ history = {}
    /\ stores = 0
    /\ injected = 0
    /\ call = NoCall
    /\ hp = HolePuncherConstructed(HostIP)

NoClosest == [target |-> ZeroID, count |-> 0, nodes |-> <<>>, call |-> 0]

NoIndex == [local |-> ZeroID, id |-> ZeroID, index |-> 0, done |-> FALSE]

\* RoutingTable::addNode up to and including KBucket::addNode's lock_guard
AddNodeEnter(t, node) ==
    /\ pc[t] = "idle"
    /\ calls < MaxCalls
    /\ calls' = calls + 1
    /\ IF node.id = localID
       THEN /\ ret' = [ret EXCEPT ![t] = [op |-> "add", id |-> node.id, result |-> FALSE,
                                          branch |-> "self", evicted |-> <<>>]]
            /\ UNCHANGED <<mutex, pc, arg>>
       ELSE LET b == getBucketIndex(localID, node.id)
            IN  /\ MutexFree(b)
                /\ mutex' = [mutex EXCEPT ![b] = t]
                /\ pc' = [pc EXCEPT ![t] = "add_find"]
                /\ arg' = [arg EXCEPT ![t] = [node |-> node, bucket |-> b, it |-> 0]]
                /\ UNCHANGED ret
    /\ UNCHANGED <<localID, buckets, now, ticks>>
    /\ UNCHANGED rtFrame

\* KBucket::addNode: the find_if over nodes_
AddNodeFind(t) ==
    /\ pc[t] = "add_find"
    /\ arg' = [arg EXCEPT ![t].it = FindIf(buckets[arg[t].bucket], arg[t].node.id)]
    /\ pc' = [pc EXCEPT ![t] = "add_apply"]
    /\ UNCHANGED <<localID, buckets, mutex, ret, now, calls, ticks>>
    /\ UNCHANGED rtFrame

\* KBucket::addNode: the branches after the find_if, and the unlock on return
AddNodeApply(t) ==
    /\ pc[t] = "add_apply"
    /\ LET b == arg[t].bucket
           r == KBucketApply(buckets[b], arg[t].it, arg[t].node, now)
       IN  /\ buckets' = [buckets EXCEPT ![b] = r.nodes]
           /\ ret' = [ret EXCEPT ![t] =
                        [op |-> "add", id |-> arg[t].node.id, result |-> r.result,
                         branch |-> r.branch,
                         evicted |-> IF r.branch = "replace"
                                     THEN <<Head(buckets[b]).id>> ELSE <<>>]]
           /\ mutex' = [mutex EXCEPT ![b] = IF mutex[b] = t THEN NoThread ELSE mutex[b]]
    /\ pc' = [pc EXCEPT ![t] = "idle"]
    /\ arg' = [arg EXCEPT ![t] = NoArg]
    /\ UNCHANGED <<localID, now, calls, ticks>>
    /\ UNCHANGED rtFrame

\* RoutingTable::removeNode up to and including KBucket::removeNode's lock_guard
RemoveNodeEnter(t, id) ==
    /\ pc[t] = "idle"
    /\ calls < MaxCalls
    /\ calls' = calls + 1
    /\ LET b == getBucketIndex(localID, id)
       IN  /\ MutexFree(b)
           /\ mutex' = [mutex EXCEPT ![b] = t]
           /\ arg' = [arg EXCEPT ![t] = [node |-> Node(id, "", 0, 0), bucket |-> b, it |-> 0]]
    /\ pc' = [pc EXCEPT ![t] = "remove_body"]
    /\ UNCHANGED <<localID, buckets, ret, now, ticks>>
    /\ UNCHANGED rtFrame

\* KBucket::removeNode: find_if, erase, and the unlock on return
RemoveNodeBody(t) ==
    /\ pc[t] = "remove_body"
    /\ LET b == arg[t].bucket
           r == KBucketRemoveNode(buckets[b], arg[t].node.id)
       IN  /\ buckets' = [buckets EXCEPT ![b] = r.nodes]
           /\ ret' = [ret EXCEPT ![t] =
                        [op |-> "remove", id |-> arg[t].node.id, result |-> r.result,
                         branch |-> r.branch, evicted |-> <<>>]]
           /\ mutex' = [mutex EXCEPT ![b] = IF mutex[b] = t THEN NoThread ELSE mutex[b]]
    /\ pc' = [pc EXCEPT ![t] = "idle"]
    /\ arg' = [arg EXCEPT ![t] = NoArg]
    /\ UNCHANGED <<localID, now, calls, ticks>>
    /\ UNCHANGED rtFrame

\* the wall clock advances
Tick ==
    /\ ticks < MaxTicks
    /\ ticks' = ticks + 1
    /\ now' = now + TickStep
    /\ UNCHANGED <<localID, buckets, mutex, pc, arg, ret, calls>>
    /\ UNCHANGED rtFrame

\* RoutingTable::findClosestNodes called by an idle thread while no other
\* thread is inside a bucket
FindClosestNodes(t, target, count) ==
    /\ \A u \in Threads : pc[u] = "idle"
    /\ calls < MaxCalls
    /\ calls' = calls + 1
    /\ closest' = [target |-> target, count |-> count,
                   nodes |-> findClosestNodes(buckets, target, count), call |-> calls + 1]
    /\ UNCHANGED <<localID, buckets, mutex, pc, arg, ret, now, ticks, ix, netVars, callVars>>

\* Kademlia::nodeLookup asks for ALPHA peers, the RPC handlers for K_VALUE
ALPHA == 3

ClosestCounts == {ALPHA, K_VALUE}

ClosestTargets == {ZeroID, FarPeer(K_VALUE), MkID(255, 255)}

Init == RtInit /\ closest = NoClosest /\ ix = NoIndex /\ NetInit

Next ==
    \/ \E node \in CallerDescriptors(localID, now) : AddNodeEnter("main", node)
    \/ \E node \in SenderDescriptors(now) : AddNodeEnter("receiver", node)
    \/ \E t \in Threads : AddNodeFind(t)
    \/ \E t \in Threads : AddNodeApply(t)
    \/ \E id \in RemoveIDs : RemoveNodeEnter("main", id)
    \/ RemoveNodeBody("main")
    \/ Tick

Spec == Init /\ [][Next]_vars

\* one thread making routing-table calls one after the other, closest() among them
NextClosest ==
    \/ \E node \in CallerDescriptors(localID, now) : AddNodeEnter("main", node)
    \/ AddNodeFind("main")
    \/ AddNodeApply("main")
    \/ \E id \in RemoveIDs : RemoveNodeEnter("main", id)
    \/ RemoveNodeBody("main")
    \/ \E target \in ClosestTargets : \E count \in ClosestCounts :
            FindClosestNodes("main", target, count)

SpecClosest == Init /\ [][NextClosest]_vars

(***************************************************************************)
(* getBucketIndex on its own, over local IDs and IDs of every bucket       *)
(***************************************************************************)
\* the ID whose 1-bits are exactly the positions in ones
IDOfBits(ones) ==
    [k \in 1..KEY_BYTES |->
        LET w(i) == IF (8 * (k - 1) + i) \in ones THEN 2 ^ (7 - i) ELSE 0
        IN  w(0) + w(1) + w(2) + w(3) + w(4) + w(5) + w(6) + w(7)]

\* local IDs: all zero, first bit set, and a mixed pattern
IndexLocals == {ZeroID, FarPeer(1), IDOfBits({1, 2, 5, 8, 77, 100, 158})}

\* differences to the local ID whose first 1-bit is at position i: that bit
\* alone, that bit and the last one, that bit and every bit behind it
IndexDifferences ==
    UNION { { IDOfBits({i}), IDOfBits({i, KEY_BITS - 1}), IDOfBits(i..(KEY_BITS - 1)) } :
            i \in BucketIndexes }
    \cup {ZeroID}

IndexInit ==
    /\ RtInit
    /\ buckets = EmptyTable
    /\ closest = NoClosest
    /\ ix \in {[local |-> l, id |-> l, index |-> 0, done |-> FALSE] : l \in IndexLocals}
    /\ NetInit

\* RoutingTable::getBucketIndex(id) on a table whose local ID is ix.local
BucketIndexCall(id) ==
    /\ ~ix.done
    /\ ix' = [local |-> ix.local, id |-> id, index |-> getBucketIndex(ix.local, id),
              done |-> TRUE]
    /\ UNCHANGED <<rtVars, closest, netVars, callVars>>

NextIndex == \E diff \in IndexDifferences : BucketIndexCall(distance(ix.local, diff))

SpecIndex == IndexInit /\ [][NextIndex]_vars

(***************************************************************************)
(* The protocol engine: RPC framing, handlers and the store / find path    *)
(***************************************************************************)
\* enum class RPCType
PING == 0

STORE == 1

FIND_NODE == 2

FIND_VALUE == 3

HOLE_PUNCH_REQUEST == 4

HOLE_PUNCH_RESPONSE == 5

\* struct RPCMessage
RPCMessage(type, sender, receiver, senderIP, senderPort, payload) ==
    [type |-> type, sender |-> sender, receiver |-> receiver, senderIP |-> senderIP,
     senderPort |-> senderPort, payload |-> payload]

\* a UDP datagram on its way to ip:port
Datagram(ip, port, data) == [ip |-> ip, port |-> port, data |-> data]

\* the text sendRPC builds: "type:sender:receiver:ip:port:" and the payload bytes
Serialize(m) ==
    to_string(m.type) \o <<Colon>> \o NodeIDToString(m.sender) \o <<Colon>>
    \o NodeIDToString(m.receiver) \o <<Colon>> \o m.senderIP \o <<Colon>>
    \o to_string(m.senderPort) \o <<Colon>> \o m.payload

\* the sendto of sendRPC: nothing leaves for a receiver the table lacks
sendTo(receiver, m) ==
    IF receiver = <<>> THEN {}
    ELSE {Datagram(receiver[1].ip, receiver[1].port, Serialize(m))}

\* Kademlia::sendRPC: the receiver's endpoint is looked up in the routing
\* table; an unknown receiver sends nothing (the call returns false), and
\* neither does a receiver in k.refused, the destinations for which the
\* host's socket() or sendto() fails (bytesSent <= 0, false as well)
sendRPC(k, m) ==
    IF m.receiver \in k.refused THEN {}
    ELSE sendTo(RoutingTableGetNode(k.id, k.routingTable, m.receiver), m)

\* sendRPC once per message of a sequence
RECURSIVE sendAll(_, _)
sendAll(k, ms) ==
    IF ms = <<>> THEN {} ELSE sendRPC(k, Head(ms)) \cup sendAll(k, Tail(ms))

\* the RPCMessage built from the fields, unless a conversion threw
Converted(parts, type, sender, receiver, port) ==
    IF type.ok /\ sender.ok /\ receiver.ok /\ port.ok
    THEN [outcome |-> "message",
          message |-> RPCMessage(type.value, sender.id, receiver.id, parts[4],
                                 port.value % 65536, parts[6])]
    ELSE [outcome |-> "thrown"]

\* parts.size() >= 6, then std::stoi and NodeID(hex) on the first fields
\* and the sixth field alone as the payload
Fields(parts) ==
    IF Len(parts) < 6 THEN [outcome |-> "ignored"]
    ELSE Converted(parts, stoi(parts[1], 10), NodeIDFromHex(parts[2]),
                   NodeIDFromHex(parts[3]), stoi(parts[5], 10))

\* the parsing in processMessages: the buffer as a C string, split at every ':'
Deserialize(data) == Fields(SplitFrom(CString(data), 1))

\* storage_[key] = value
Put(map, key, value) ==
    [x \in (DOMAIN map) \cup {key} |-> IF x = key THEN value ELSE map[x]]

\* the peers of a reply: "<id-hex>:<ip>:<port>\n" for each
RECURSIVE NodeList(_)
NodeList(nodes) ==
    IF nodes = <<>> THEN <<>>
    ELSE NodeIDToString(Head(nodes).id) \o <<Colon>> \o Head(nodes).ip \o <<Colon>>
         \o to_string(Head(nodes).port) \o <<Newline>> \o NodeList(Tail(nodes))

\* HolePuncher::isLocalConnection for a node that never ran NAT detection
isLocalConnection(ip) == ip = LocalIP

\* "LOCAL_CONNECT_RESPONSE"
LocalConnectResponse ==
    <<76, 79, 67, 65, 76, 95, 67, 79, 78, 78, 69, 67, 84, 95, 82, 69, 83, 80, 79, 78, 83, 69>>

\* HolePuncher::handleHolePunchRequest as seen from the Kademlia ports: a
\* local requester is sent the raw text above
handleHolePunchRequest(requester) ==
    IF isLocalConnection(requester.ip)
    THEN {Datagram(requester.ip, requester.port, LocalConnectResponse)}
    ELSE {}

\* size_t halfSize = message.payload.size() / 2
halfSize(payload) == Len(payload) \div 2

\* what a handler leaves: the node's state, the datagrams sent, a throw
Handled(k, sent, thrown) == [kad |-> k, sent |-> sent, thrown |-> thrown]

\* a response to the sender of m
Respond(k, m, type, payload) ==
    sendRPC(k, RPCMessage(type, k.id, m.sender, k.ip, k.port, payload))

\* case RPCType::STORE: the payload split at its halfway point
handleStore(k, keyStr, value, t) ==
    Handled([k EXCEPT !.storage = Put(@, keyStr, value),
                      !.storageTimestamps = Put(@, keyStr, t)], {}, FALSE)

\* case RPCType::FIND_NODE: NodeID(payload) may throw
handleFindNode(k, m, targetID) ==
    IF ~targetID.ok THEN Handled(k, {}, TRUE)
    ELSE Handled(k, Respond(k, m, FIND_NODE,
                            NodeList(findClosestNodes(k.routingTable, targetID.id, K_VALUE))),
                 FALSE)

\* case RPCType::FIND_VALUE: the value, or the closest peers as a FIND_NODE
handleFindValue(k, m, keyStr) ==
    IF keyStr \in DOMAIN k.storage
    THEN Handled(k, Respond(k, m, FIND_VALUE, k.storage[keyStr]), FALSE)
    ELSE Handled(k, Respond(k, m, FIND_NODE,
                            NodeList(findClosestNodes(k.routingTable, hashKey(m.payload),
                                                      K_VALUE))),
                 FALSE)

\* the switch of handleRPC on node state k, the sender already added
Switch(k, m, sender, t) ==
    CASE m.type = PING -> Handled(k, Respond(k, m, PING, <<>>), FALSE)
      [] m.type = STORE ->
            handleStore(k, DHTKeyToString(SubSeq(m.payload, 1, halfSize(m.payload))),
                        SubSeq(m.payload, halfSize(m.payload) + 1, Len(m.payload)), t)
      [] m.type = FIND_NODE -> handleFindNode(k, m, NodeIDFromHex(m.payload))
      [] m.type = FIND_VALUE -> handleFindValue(k, m, DHTKeyToString(m.payload))
      [] m.type = HOLE_PUNCH_REQUEST ->
            Handled(k, handleHolePunchRequest(sender)
                       \cup Respond(k, m, HOLE_PUNCH_RESPONSE, <<>>), FALSE)
      [] OTHER -> Handled(k, {}, FALSE)

\* a variant of SenderAdded that leaves a sender the table knows as it is
SenderAddedIfAbsent(k, sender, t) ==
    IF RoutingTableGetNode(k.id, k.routingTable, sender.id) # <<>> THEN k
    ELSE [k EXCEPT !.routingTable =
                       RoutingTableAddNode(k.id, k.routingTable, sender, t).buckets]

\* the first lines of handleRPC: routingTable_->addNode(sender)
SenderAdded(k, sender, t) ==
    [k EXCEPT !.routingTable = RoutingTableAddNode(k.id, k.routingTable, sender, t).buckets]

\* Kademlia::handleRPC at time t on node state k
handleRPCFrom(k, m, sender, t) == Switch(SenderAdded(k, sender, t), m, sender, t)

handleRPC(k, m, t) == handleRPCFrom(k, m, Node(m.sender, m.senderIP, m.senderPort, t), t)

\* the requests of one lookup round: one message of the type to each peer
Requests(k, type, nodes, payload) ==
    [i \in 1..Len(nodes) |-> RPCMessage(type, k.id, nodes[i].id, k.ip, k.port, payload)]

\* a variant of lookupAmong that reports success whatever it found
lookupAmongAlwaysFound(k, target, closestNodes) ==
    [success |-> TRUE, nodes |-> closestNodes,
     sent |-> sendAll(k, Requests(k, FIND_NODE, closestNodes, NodeIDToString(target))),
     callbacks |-> <<[success |-> TRUE, nodes |-> closestNodes]>>]

\* the rest of nodeLookup once the ALPHA closest peers are known: FIND_NODE
\* to each, and the same peers handed to the callback at once
lookupAmong(k, target, closestNodes) ==
    [success |-> closestNodes # <<>>, nodes |-> closestNodes,
     sent |-> sendAll(k, Requests(k, FIND_NODE, closestNodes, NodeIDToString(target))),
     callbacks |-> <<[success |-> closestNodes # <<>>, nodes |-> closestNodes]>>]

\* Kademlia::nodeLookup
nodeLookup(k, target) ==
    lookupAmong(k, target, findClosestNodes(k.routingTable, target, ALPHA))

\* a variant of allSuccess that is content with one send that succeeded
anySuccess(k, ms) == ms = <<>> \/ \E i \in 1..Len(ms) : sendRPC(k, ms[i]) # {}

\* the flag allSuccess of store(): no sendRPC of the loop returned false
allSuccess(k, ms) == \A i \in 1..Len(ms) : sendRPC(k, ms[i]) # {}

\* a variant of the callback of store() that inserts the record before it
\* looks at the outcome of the lookup
storeAmongInsertsFirst(k, key, value, t, found) ==
    [kad |-> [k EXCEPT !.storage = Put(@, DHTKeyToString(key), value),
                       !.storageTimestamps = Put(@, DHTKeyToString(key), t)],
     sent |-> found.sent \cup sendAll(k, Requests(k, STORE, found.nodes, key \o value)),
     success |-> found.success /\ allSuccess(k, Requests(k, STORE, found.nodes, key \o value)),
     value |-> IF found.success THEN value ELSE <<>>,
     callbacks |-> <<[success |-> found.success
                                  /\ allSuccess(k, Requests(k, STORE, found.nodes, key \o value)),
                      value |-> IF found.success THEN value ELSE <<>>]>>]

\* the callback store() hands to nodeLookup, run at time t on the outcome
\* found of the lookup: callback(false, {}) without a peer; else the local
\* insert under storageMutex_, a STORE with payload key ++ value to each
\* peer, callback(allSuccess, value)
storeAmong(k, key, value, t, found) ==
    IF ~found.success
    THEN [kad |-> k, sent |-> found.sent, success |-> FALSE, value |-> <<>>,
          callbacks |-> <<[success |-> FALSE, value |-> <<>>]>>]
    ELSE [kad |-> [k EXCEPT !.storage = Put(@, DHTKeyToString(key), value),
                            !.storageTimestamps = Put(@, DHTKeyToString(key), t)],
          sent |-> found.sent
                   \cup sendAll(k, Requests(k, STORE, found.nodes, key \o value)),
          success |-> allSuccess(k, Requests(k, STORE, found.nodes, key \o value)),
          value |-> value,
          callbacks |-> <<[success |-> allSuccess(k, Requests(k, STORE, found.nodes,
                                                              key \o value)),
                           value |-> value]>>]

\* Kademlia::store
store(k, key, value, t) == storeAmong(k, key, value, t, nodeLookup(k, hashKey(key)))

\* the rest of valueLookup: FIND_VALUE to each of the ALPHA closest peers,
\* and failure handed to the callback without waiting for a reply
valueLookupAmong(k, key, closestNodes) ==
    [sent |-> sendAll(k, Requests(k, FIND_VALUE, closestNodes, key)),
     success |-> FALSE, value |-> <<>>,
     callbacks |-> <<[success |-> FALSE, value |-> <<>>]>>]

\* Kademlia::valueLookup
valueLookup(k, key) ==
    valueLookupAmong(k, key, findClosestNodes(k.routingTable, hashKey(key), ALPHA))

\* Kademlia::findValue: the local store first, the lookup otherwise
findValue(k, key) ==
    IF DHTKeyToString(key) \in DOMAIN k.storage
    THEN [sent |-> {}, success |-> TRUE, value |-> k.storage[DHTKeyToString(key)],
          callbacks |-> <<[success |-> TRUE, value |-> k.storage[DHTKeyToString(key)]]>>]
    ELSE valueLookup(k, key)

\* const uint64_t EXPIRE_THRESHOLD: 24 hours in milliseconds
EXPIRE_THRESHOLD == 24 * 60 * 60 * 1000

\* now - timestamp > EXPIRE_THRESHOLD on uint64_t.  A timestamp later than
\* now makes the subtraction wrap to 2^64 - (timestamp - now), which is above
\* the threshold for every pair of times less than 2^64 - EXPIRE_THRESHOLD
\* apart (the model's times are below 2^31).
pastThreshold(t, timestamp) ==
    IF timestamp > t THEN TRUE ELSE t - timestamp > EXPIRE_THRESHOLD

\* the map without the keys erased from it
Without(map, keys) == [key \in DOMAIN map \ keys |-> map[key]]

\* the first loop of expireKeys: the keys of storageTimestamps_ past the threshold
keysToRemove(k, t) ==
    {key \in DOMAIN k.storageTimestamps : pastThreshold(t, k.storageTimestamps[key])}

\* a variant of expireKeys that erases from storage_ alone
expireKeysValuesOnly(k, t) ==
    [k EXCEPT !.storage = Without(@, keysToRemove(k, t))]

\* Kademlia::expireKeys at time t, under storageMutex_: every key to remove
\* is erased from storage_ and from storageTimestamps_
expireKeys(k, t) ==
    [k EXCEPT !.storage = Without(@, keysToRemove(k, t)),
              !.storageTimestamps = Without(@, keysToRemove(k, t))]

\* Kademlia::bootstrap(ip, port) at time t with the ID NodeID::random() drew:
\* the node is added, then nodeLookup(own ID) without a callback
bootstrapWith(k, bootstrapNode, t) ==
    [k EXCEPT !.routingTable =
                  RoutingTableAddNode(k.id, k.routingTable, bootstrapNode, t).buckets]

bootstrapLookup(k) == [kad |-> k, sent |-> nodeLookup(k, k.id).sent]

bootstrap(k, bootstrapID, bootstrapIP, bootstrapPort, t) ==
    bootstrapLookup(bootstrapWith(k, Node(bootstrapID, bootstrapIP, bootstrapPort, t), t))

(***************************************************************************)
(* The network of nodes: application calls, datagram delivery and loss     *)
(***************************************************************************)
\* store() calls of a behaviour
MaxStores == 1

\* datagrams the network holds at once; what does not fit is lost
NetCapacity == 1

\* datagrams from hosts that are not nodes of the model
MaxInjected == 1

\* the keys and values the application stores and asks for: "a", "ab" and
\* "x", "xy", ":"
StoreKeys == {<<97>>, <<97, 98>>}

StoreValues == {<<120>>, <<120, 121>>, <<Colon>>}

\* the ID NodeID::random() draws in bootstrap(): some other ID, or by
\* chance the node's own
BootstrapIDs(n) == {MkID(64, n), NetID(n)}

\* a host outside the model's nodes
StrangerID == MkID(128, 9)

StrangerPort == NetPort(9)

\* the descriptors the application adds by hand: another node of the
\* network, or one carrying the local ID
PeerDescriptors(n, t) ==
    {Node(NetID(m), LocalIP, NetPort(m), t) : m \in NetNodes \ {n}}
    \cup {Node(NetID(n), LocalIP, StrangerPort, t)}

\* the node is a live process
Alive(n) == ~kad[n].terminated

\* the subsets of at most n elements of a set
RECURSIVE UpTo(_, _)
UpTo(S, n) ==
    IF n = 0 THEN {{}}
    ELSE LET smaller == UpTo(S, n - 1)
         IN  smaller \cup {tx[1] \cup {tx[2]} : tx \in smaller \X S}

\* the datagrams handed to sendto reach the network or are lost; the network
\* holds NetCapacity datagrams
Transmit(remaining, sent) ==
    \E kept \in UpTo(sent, NetCapacity) :
        /\ Cardinality(remaining \cup kept) <= NetCapacity
        /\ net' = remaining \cup kept

\* the node's state and the datagrams of an operation take effect
Effect(n, remaining, r) ==
    /\ kad' = [kad EXCEPT ![n] = r.kad]
    /\ Transmit(remaining, r.sent)

\* the body of start() on the node state whose running_ is set: bootstrap()
\* is called with the local node's own IP and port
started(k, bootstrapID, t) ==
    IF k.ip # <<>> /\ k.port # 0
    THEN bootstrap(k, bootstrapID, k.ip, k.port, t)
    ELSE [kad |-> k, sent |-> {}]

\* Kademlia::start()
Start(n, bootstrapID) ==
    /\ Alive(n)
    /\ ~kad[n].running
    /\ Effect(n, net, started([kad[n] EXCEPT !.running = TRUE], bootstrapID, now))
    /\ UNCHANGED <<rtVars, closest, ix, callVars, history, stores, injected>>

\* getRoutingTable()->addNode(node) by the application
AddPeer(n, node) ==
    /\ Alive(n)
    /\ LET r == RoutingTableAddNode(kad[n].id, kad[n].routingTable, node, now)
       IN  kad' = [kad EXCEPT ![n].routingTable = r.buckets]
    /\ UNCHANGED <<rtVars, closest, ix, callVars, net, history, stores, injected>>

\* Kademlia::store(key, value, callback)
Store(n, key, value) ==
    /\ Alive(n)
    /\ stores < MaxStores
    /\ stores' = stores + 1
    /\ history' = history \cup {<<n, key, value>>}
    /\ Effect(n, net, store(kad[n], key, value, now))
    /\ UNCHANGED <<rtVars, closest, ix, callVars, injected>>

\* Kademlia::findValue(key, callback)
FindValue(n, key) ==
    /\ Alive(n)
    /\ Transmit(net, findValue(kad[n], key).sent)
    /\ UNCHANGED <<rtVars, closest, ix, callVars, kad, history, stores, injected>>

\* Kademlia::ping(node) for the peer the table holds under that ID
Ping(n, id) ==
    /\ Alive(n)
    /\ Transmit(net, sendRPC(kad[n], RPCMessage(PING, kad[n].id, id, kad[n].ip, kad[n].port,
                                                <<>>)))
    /\ UNCHANGED <<rtVars, closest, ix, callVars, kad, history, stores, injected>>

\* a handler that returned, or threw out of the message thread
AfterHandler(r) == [kad |-> [r.kad EXCEPT !.terminated = r.thrown], sent |-> r.sent]

\* what one received datagram does to node state k: too few fields are
\* skipped, a throwing conversion ends the process, a message is handled
Received(k, parsed, t) ==
    CASE parsed.outcome = "ignored" -> [kad |-> k, sent |-> {}]
      [] parsed.outcome = "thrown" -> [kad |-> [k EXCEPT !.terminated = TRUE], sent |-> {}]
      [] OTHER -> AfterHandler(handleRPC(k, parsed.message, t))

\* one turn of the loop in processMessages on the node bound to the
\* datagram's port: parse, then handleRPC; an exception leaving the thread
\* terminates the process
Deliver(n, dg) ==
    /\ dg \in net
    /\ dg.ip = kad[n].ip /\ dg.port = kad[n].port
    /\ Alive(n)
    /\ kad[n].running
    /\ Effect(n, net \ {dg}, Received(kad[n], Deserialize(dg.data), now))
    /\ UNCHANGED <<rtVars, closest, ix, callVars, history, stores, injected>>

\* a datagram is lost, or reaches a port no running node listens on
Lose(dg) ==
    /\ dg \in net
    /\ net' = net \ {dg}
    /\ UNCHANGED <<rtVars, closest, ix, callVars, kad, history, stores, injected>>

NextNet ==
    \/ \E n \in NetNodes : \E id \in BootstrapIDs(n) : Start(n, id)
    \/ \E n \in NetNodes : \E node \in PeerDescriptors(n, now) : AddPeer(n, node)
    \/ \E n \in NetNodes : \E key \in StoreKeys : \E value \in StoreValues : Store(n, key, value)
    \/ \E n \in NetNodes : \E key \in StoreKeys : FindValue(n, key)
    \/ \E n \in NetNodes : \E m \in NetNodes : Ping(n, NetID(m))
    \/ \E n \in NetNodes : \E dg \in net : Deliver(n, dg)
    \/ \E dg \in net : Lose(dg)

\* a behaviour of the network starts with the stand-alone routing table idle
InitNet == Init /\ buckets = EmptyTable

SpecNet == InitNet /\ [][NextNet]_vars

(***************************************************************************)
(* Inbound traffic from hosts outside the model's nodes                    *)
(***************************************************************************)
\* the port a message claims when it carries the receiver's own ID
SpoofPort == NetPort(10)

RPCTypes == PING..HOLE_PUNCH_RESPONSE

\* payloads of the messages other hosts send: a target, or nothing, for
\* FIND_NODE; "ax" for STORE; "a" for FIND_VALUE; nothing otherwise
ForeignPayloads(type) ==
    CASE type = FIND_NODE -> {NodeIDToString(StrangerID), <<>>}
      [] type = STORE -> {<<97, 120>>}
      [] type = FIND_VALUE -> {<<97>>}
      [] OTHER -> {<<>>}

\* well-framed messages of every type to node n, whose sender field is
\* another host's ID or n's own ID
ForeignMessages(n) ==
    UNION { { RPCMessage(type, StrangerID, NetID(n), LocalIP, StrangerPort, payload),
              RPCMessage(type, NetID(n), NetID(n), LocalIP, SpoofPort, payload) }
            : <<type, payload>> \in UNION { {<<ty, pl>> : pl \in ForeignPayloads(ty)}
                                           : ty \in RPCTypes } }

\* a host outside the model sends a datagram to node n's port
Inject(n, m) ==
    /\ injected < MaxInjected
    /\ injected' = injected + 1
    /\ Transmit(net, {Datagram(LocalIP, NetPort(n), Serialize(m))})
    /\ UNCHANGED <<rtVars, closest, ix, callVars, kad, history, stores>>

NextInbound ==
    \/ \E n \in NetNodes : \E id \in BootstrapIDs(n) : Start(n, id)
    \/ \E n \in NetNodes : \E node \in PeerDescriptors(n, now) : AddPeer(n, node)
    \/ \E n \in NetNodes : \E m \in ForeignMessages(n) : Inject(n, m)
    \/ \E n \in NetNodes : \E dg \in net : Deliver(n, dg)
    \/ \E dg \in net : Lose(dg)

SpecInbound == InitNet /\ [][NextInbound]_vars

(***************************************************************************)
(* One API call on a prepared node                                         *)
(*                                                                         *)
(* Node 1 has a routing table the application filled and a set of          *)
(* destinations its host cannot send to; node 2 holds the record "a" ->    *)
(* "x" a stranger stored on it.  One of store(), findValue() and           *)
(* nodeLookup() is called on node 1, and the datagrams it sent travel.     *)
(***************************************************************************)
\* node 2's endpoint as a peer descriptor
Neighbour == Node(NetID(2), LocalIP, NetPort(2), StartMillis)

\* the tables node 1 is called with: none to K_VALUE peers of bucket 0,
\* node 2 alone, node 2 beside four peers of bucket 0
CallTables ==
    { Filled(NetID(1), j) : j \in {0, 1, 2, 4, K_VALUE} }
    \cup { RoutingTableAddNode(NetID(1), Filled(NetID(1), j), Neighbour, StartMillis).buckets
           : j \in {0, 4} }

\* the receivers the host of node 1 may be unable to send to
RefusedSets == SUBSET {FarPeer(1), FarPeer(2), FarPeer(3)}

\* the STORE of "a" -> "x" a stranger sends to node n
StrangerStore(n) ==
    RPCMessage(STORE, StrangerID, NetID(n), LocalIP, StrangerPort, <<97, 120>>)

\* a running node that handled the stranger's STORE
Holder(n) ==
    handleRPC([Constructed(n) EXCEPT !.running = TRUE], StrangerStore(n), StartMillis).kad

InitCalls ==
    /\ RtInit
    /\ buckets = EmptyTable
    /\ closest = NoClosest
    /\ ix = NoIndex
    /\ \E table \in CallTables : \E refused \in RefusedSets :
           kad = [n \in NetNodes |->
                     IF n = 1
                     THEN [Constructed(1) EXCEPT !.running = TRUE,
                                                 !.routingTable = table,
                                                 !.refused = refused]
                     ELSE Holder(n)]
    /\ net = {}
    /\ history = {}
    /\ stores = 0
    /\ injected = 0
    /\ call = NoCall
    /\ hp = HolePuncherConstructed(HostIP)

\* what a completed call leaves for observation: the node before and after,
\* the peers the lookup found, the datagrams handed to sendto, the
\* invocations of the caller's callback
Observed(op, n, key, value, target, found, r) ==
    [op |-> op, node |-> n, key |-> key, value |-> value, target |-> target,
     before |-> kad[n], after |-> r.kad, peers |-> found.nodes, sent |-> r.sent,
     callbacks |-> r.callbacks]

\* a call that leaves the node's state alone
Unchanged(k, r) == [kad |-> k, sent |-> r.sent, callbacks |-> r.callbacks]

\* one call completes: its effects and its observation
Completes(n, obs) ==
    /\ call = NoCall
    /\ Alive(n)
    /\ call' = obs
    /\ kad' = [kad EXCEPT ![n] = obs.after]
    /\ Transmit(net, obs.sent)
    /\ UNCHANGED <<rtVars, closest, ix, hp, history, stores, injected>>

\* store(key, value, callback) on node n
StoreCall(n, key, value) ==
    Completes(n, Observed("store", n, key, value, hashKey(key),
                          nodeLookup(kad[n], hashKey(key)),
                          store(kad[n], key, value, now)))

\* findValue(key, callback) on node n
FindValueCall(n, key) ==
    Completes(n, Observed("findValue", n, key, <<>>, hashKey(key),
                          nodeLookup(kad[n], hashKey(key)),
                          Unchanged(kad[n], findValue(kad[n], key))))

\* findNode(target, callback) on node n: nodeLookup with the caller's callback
LookupCall(n, target) ==
    Completes(n, Observed("nodeLookup", n, <<>>, <<>>, target,
                          nodeLookup(kad[n], target),
                          Unchanged(kad[n], nodeLookup(kad[n], target))))

\* the targets looked up: an ID of bucket 0, node 2's ID, the hash of "a"
LookupTargets == {FarPeer(2), NetID(2), hashKey(<<97>>)}

NextCalls ==
    \/ \E key \in StoreKeys : \E value \in StoreValues : StoreCall(1, key, value)
    \/ \E key \in StoreKeys : FindValueCall(1, key)
    \/ \E target \in LookupTargets : LookupCall(1, target)
    \/ \E n \in NetNodes : \E dg \in net : Deliver(n, dg)
    \/ \E dg \in net : Lose(dg)

SpecCalls == InitCalls /\ [][NextCalls]_vars

(***************************************************************************)
(* The local store over time                                               *)
(*                                                                         *)
(* Node 1 runs and has node 2, which was not started, as its peer.         *)
(* Records arrive through store() and through received STOREs, the system  *)
(* clock is set forward and backward, and the maintenance thread's         *)
(* expireKeys() runs.                                                      *)
(***************************************************************************)
\* what utils::getCurrentTimeMillis() returns over a behaviour: the system
\* clock may be set, forward by the expiry threshold or a millisecond more,
\* or back by a millisecond
ClockValues ==
    {StartMillis - 1, StartMillis, StartMillis + EXPIRE_THRESHOLD,
     StartMillis + EXPIRE_THRESHOLD + 1}

\* the STOREs other hosts send to node n: "a" -> "x" from a stranger, and
\* "ab" -> "xy" under n's own ID
StoreMessages(n) ==
    {StrangerStore(n),
     RPCMessage(STORE, NetID(n), NetID(n), LocalIP, SpoofPort, <<97, 98, 120, 121>>)}

\* the record node 1 stores: "b" -> "y"
ExpiryStores == {<<(<<98>>), (<<121>>)>>}

InitExpiry ==
    /\ RtInit
    /\ now = StartMillis
    /\ buckets = EmptyTable
    /\ closest = NoClosest
    /\ ix = NoIndex
    /\ kad = [n \in NetNodes |->
                 IF n = 1
                 THEN [Constructed(1) EXCEPT
                           !.running = TRUE,
                           !.routingTable =
                               RoutingTableAddNode(NetID(1), EmptyTable, Neighbour,
                                                   StartMillis).buckets]
                 ELSE Constructed(n)]
    /\ net = {}
    /\ history = {}
    /\ stores = 0
    /\ injected = 0
    /\ call = NoCall
    /\ hp = HolePuncherConstructed(HostIP)

\* the system clock is set: it reads t from now on
SetClock(t) ==
    /\ ticks < MaxTicks
    /\ ticks' = ticks + 1
    /\ t # now
    /\ now' = t
    /\ UNCHANGED <<localID, buckets, mutex, pc, arg, ret, calls>>
    /\ UNCHANGED <<closest, ix, netVars, callVars>>

\* expireKeys() of the maintenance thread on node n
ExpireKeys(n) ==
    /\ call = NoCall
    /\ Alive(n)
    /\ kad[n].running
    /\ kad' = [kad EXCEPT ![n] = expireKeys(kad[n], now)]
    /\ call' = [op |-> "expireKeys", node |-> n, at |-> now,
                before |-> [storage |-> kad[n].storage,
                            storageTimestamps |-> kad[n].storageTimestamps],
                after |-> [storage |-> expireKeys(kad[n], now).storage,
                           storageTimestamps |-> expireKeys(kad[n], now).storageTimestamps]]
    /\ UNCHANGED <<rtVars, closest, ix, hp, net, history, stores, injected>>

NextExpiry ==
    \/ \E kv \in ExpiryStores : Store(1, kv[1], kv[2])
    \/ \E m \in StoreMessages(1) : Inject(1, m)
    \/ \E n \in NetNodes : \E dg \in net : Deliver(n, dg)
    \/ \E dg \in net : Lose(dg)
    \/ \E t \in ClockValues : SetClock(t)
    \/ ExpireKeys(1)

SpecExpiry == InitExpiry /\ [][NextExpiry]_vars

(***************************************************************************)
(* Inbound RPCs on filled buckets                                          *)
(*                                                                         *)
(* Node 1 runs with bucket 0 empty, one short of full, or full, and        *)
(* receives RPCs of every type from a peer the bucket may hold and from    *)
(* one it does not, while the clock may pass the liveness threshold.       *)
(***************************************************************************)
\* the senders: FarPeer(9), which a filled bucket holds under another port,
\* and FarPeer(K_VALUE + 1), which no bucket holds
UpsertSenders == {9, K_VALUE + 1}

\* well-framed messages of every type to node n from those senders
UpsertMessages(n) ==
    { RPCMessage(tp[1], FarPeer(j), NetID(n), OtherIP, NetPort(j + 100), tp[2])
      : <<j, tp>> \in UpsertSenders
                      \X UNION { {<<ty, pl>> : pl \in ForeignPayloads(ty)} : ty \in RPCTypes } }

InitUpsert ==
    /\ RtInit
    /\ buckets = EmptyTable
    /\ closest = NoClosest
    /\ ix = NoIndex
    /\ \E j \in {0, K_VALUE - 1, K_VALUE} :
           kad = [n \in NetNodes |->
                     IF n = 1
                     THEN [Constructed(1) EXCEPT !.running = TRUE,
                                                 !.routingTable = Filled(NetID(1), j)]
                     ELSE Constructed(n)]
    /\ net = {}
    /\ history = {}
    /\ stores = 0
    /\ injected = 0
    /\ call = NoCall
    /\ hp = HolePuncherConstructed(HostIP)

NextUpsert ==
    \/ \E m \in UpsertMessages(1) : Inject(1, m)
    \/ \E n \in NetNodes : \E dg \in net : Deliver(n, dg)
    \/ \E dg \in net : Lose(dg)
    \/ Tick

SpecUpsert == InitUpsert /\ [][NextUpsert]_vars

(***************************************************************************)
(* The wire text of one message                                            *)
(*                                                                         *)
(* sendRPC writes a message as text into a datagram and the loop of        *)
(* processMessages parses the datagram it received.                        *)
(***************************************************************************)
\* payloads: none, "x", "a:b", "x" NUL "y", the hex form of an ID
CodecPayloads ==
    {<<>>, <<120>>, <<97, Colon, 98>>, <<120, 0, 121>>, NodeIDToString(StrangerID)}

\* messages of every type between the model's IDs
CodecMessages ==
    { RPCMessage(f[1], NetID(f[2]), NetID(f[3]), f[4], f[5], f[6])
      : f \in RPCTypes \X NetNodes \X NetNodes \X {LocalIP, OtherIP}
              \X {0, NetPort(1), 65535} \X CodecPayloads }

InitCodec == InitNet

\* the serialization and the sendto of sendRPC for message m, node 2 the receiver
Encode(m) ==
    /\ call = NoCall
    /\ call' = [op |-> "sendRPC", message |-> m]
    /\ net' = sendTo(<<Neighbour>>, m)
    /\ UNCHANGED <<rtVars, closest, ix, hp, kad, history, stores, injected>>

\* the parsing of processMessages on the datagram up to the call of handleRPC
Decode(dg) ==
    /\ dg \in net
    /\ call.op = "sendRPC"
    /\ call' = [op |-> "parsed", message |-> call.message, parsed |-> Deserialize(dg.data)]
    /\ net' = net \ {dg}
    /\ UNCHANGED <<rtVars, closest, ix, hp, kad, history, stores, injected>>

NextCodec ==
    \/ \E m \in CodecMessages : Encode(m)
    \/ \E dg \in net : Decode(dg)

SpecCodec == InitCodec /\ [][NextCodec]_vars

(***************************************************************************)
(* The hole puncher: NAT classification                                    *)
(*                                                                         *)
(* detectNATType() as a function of what the host and the STUN servers do: *)
(* the endpoint getPublicEndpoint() obtained, the local step that failed,  *)
(* and what came of the request to the second server.                      *)
(***************************************************************************)
\* the address of the NAT's outer side: "192.0.2.7"
PublicIP == <<49, 57, 50, 46, 48, 46, 50, 46, 55>>

\* the text inet_ntop gives for the INADDR_ANY the test socket is bound to
AnyIP == <<48, 46, 48, 46, 48, 46, 48>>

Endpoint(ip, port) == [ip |-> ip, port |-> port]

\* the public endpoints a STUN server may report
Endpoints == {Endpoint(ip, port) : ip \in {HostIP, PublicIP}, port \in {5000, 5001}}

\* what becomes of the request to the second server: its name does not
\* resolve, sendto fails, poll times out, recvfrom reads nothing, the reply
\* does not parse, or it parses to an endpoint
SecondOutcomes ==
    {[outcome |-> o] : o \in {"unresolved", "unsent", "timeout", "unread", "unparsable"}}
    \cup {[outcome |-> "answer", endpoint |-> ep] : ep \in Endpoints}

\* the runs of detectNATType: the first query's endpoint if any (A), the
\* local step that fails if any, the port the OS chose, the second query (B)
NatOutcomes ==
    [A : {<<>>} \cup {<<ep>> : ep \in Endpoints},
     local : {"ok", "socket", "bind", "getsockname"},
     port : {6000},
     B : SecondOutcomes]

\* connectionInfo_ after the bind: the socket's address when no local IP was
\* detected, and the port the OS chose
Bound(h, port) ==
    [h EXCEPT !.connectionInfo.localIP = IF @ = <<>> THEN AnyIP ELSE @,
              !.connectionInfo.localPort = port]

\* the if-chain at the end of detectNATType
natTypeOf(localIP, first, second) ==
    IF first.ip = localIP THEN "OPEN"
    ELSE IF second.outcome = "answer"
    THEN IF first.ip = second.endpoint.ip /\ first.port = second.endpoint.port
         THEN "FULL_CONE"
         ELSE "SYMMETRIC"
    ELSE "PORT_RESTRICTED"

\* the final update of connectionInfo_ and the value returned
Classified(h, first, natType) ==
    [hp |-> [h EXCEPT !.connectionInfo.natType = natType,
                      !.connectionInfo.publicIP = first.ip,
                      !.connectionInfo.publicPort = first.port],
     result |-> natType]

\* detectNATType from the bound socket on: getaddrinfo or sendto failing
\* returns UNKNOWN at once
secondQuery(h, first, second) ==
    IF second.outcome \in {"unresolved", "unsent"} THEN [hp |-> h, result |-> "UNKNOWN"]
    ELSE Classified(h, first, natTypeOf(h.connectionInfo.localIP, first, second))

\* HolePuncher::detectNATType on hole puncher h in run o
detectNATType(h, o) ==
    IF o.A = <<>> \/ o.local # "ok" THEN [hp |-> h, result |-> "UNKNOWN"]
    ELSE secondQuery(Bound(h, o.port), o.A[1], o.B)

\* a hole puncher whose detectLocalIP found the host's address, or failed
InitNat ==
    /\ RtInit
    /\ buckets = EmptyTable
    /\ closest = NoClosest
    /\ ix = NoIndex
    /\ kad = [n \in NetNodes |-> Constructed(n)]
    /\ net = {}
    /\ history = {}
    /\ stores = 0
    /\ injected = 0
    /\ call = NoCall
    /\ hp \in {HolePuncherConstructed(HostIP), HolePuncherConstructed(<<>>)}

\* detectNATType() is called and returns
DetectNATType(o) ==
    /\ call = NoCall
    /\ call' = [op |-> "detectNATType", run |-> o, before |-> hp,
                result |-> detectNATType(hp, o).result]
    /\ hp' = detectNATType(hp, o).hp
    /\ UNCHANGED <<rtVars, closest, ix, netVars>>

NextNat == \E o \in NatOutcomes : DetectNATType(o)

SpecNat == InitNat /\ [][NextNat]_vars

(***************************************************************************)
(* The hole puncher: connection attempts                                   *)
(*                                                                         *)
(* initiateHolePunch() runs on the caller's thread; each attempt blocks    *)
(* until its reply or its timeout and is one step.  What the host and the  *)
(* peer do in an attempt is the attempt's outcome.                         *)
(***************************************************************************)
\* "LOCAL_CONNECT"
LocalConnect == <<76, 79, 67, 65, 76, 95, 67, 79, 78, 78, 69, 67, 84>>

\* "DIRECT_CONNECT"
DirectConnect == <<68, 73, 82, 69, 67, 84, 95, 67, 79, 78, 78, 69, 67, 84>>

\* "HOLE_PUNCH"
HolePunch == <<72, 79, 76, 69, 95, 80, 85, 78, 67, 72>>

\* "STUN_CONNECT "
StunConnect == <<83, 84, 85, 78, 95, 67, 79, 78, 78, 69, 67, 84, 32>>

\* HolePuncher::isLocalConnection on hole puncher h
isLocalConnectionOf(h, ip) == isLocalConnection(ip) \/ ip = h.connectionInfo.localIP

\* the outcome of an attempt: a call that fails before anything is sent,
\* no reply within the timeouts, a reply from another endpoint, a reply
\* from the target (for TCP: a connection accepted from, or made to, it)
Unsent == {"noendpoint", "socket", "bind"}

Outcomes(method) ==
    CASE method = "local" -> {"socket", "bind", "silence", "reply"}
      [] method = "direct" -> {"socket", "silence", "other", "target"}
      [] method = "stun" -> {"noendpoint", "socket", "silence", "other", "target"}
      [] OTHER -> {"noendpoint", "socket", "bind", "silence", "other", "target"}

\* what an attempt returns and the datagrams it handed to sendto
Attempt(success, sent) == [success |-> success, sent |-> sent]

\* HolePuncher::attemptLocalConnection: any datagram received is a success
attemptLocalConnection(target, o) ==
    Attempt(o = "reply",
            IF o \in Unsent THEN {} ELSE {Datagram(target.ip, target.port, LocalConnect)})

\* HolePuncher::attemptDirectConnection: a datagram from the target's endpoint
attemptDirectConnection(target, o) ==
    Attempt(o = "target",
            IF o \in Unsent THEN {} ELSE {Datagram(target.ip, target.port, DirectConnect)})

\* HolePuncher::attemptSTUNConnection with public endpoint ep: the packets of
\* sendHolePunchingPackets, then "STUN_CONNECT <ip>:<port>" until the target replies
attemptSTUNConnection(target, ep, o) ==
    Attempt(o = "target",
            IF o \in Unsent THEN {}
            ELSE {Datagram(target.ip, target.port, HolePunch),
                  Datagram(target.ip, target.port,
                           StunConnect \o ep.ip \o <<Colon>> \o to_string(ep.port))})

\* HolePuncher::attemptTCPHolePunch: a connection accepted from the target's
\* address or completed to its endpoint; no datagram is sent
attemptTCPHolePunch(target, o) == Attempt(o = "target", {})

\* initiateHolePunch up to its first attempt on the general path
Punching(target) ==
    [op |-> "initiateHolePunch", pc |-> "direct", local |-> FALSE, target |-> target,
     tried |-> <<>>, callbacks |-> <<>>]

\* initiateHolePunch on the local path: one attempt and the callback
localPath(target, success) ==
    [op |-> "initiateHolePunch", pc |-> "done", local |-> TRUE, target |-> target,
     tried |-> <<[method |-> "local", success |-> success]>>,
     callbacks |-> <<IF success
                     THEN [success |-> TRUE, ip |-> target.ip, port |-> target.port]
                     ELSE [success |-> FALSE, ip |-> <<>>, port |-> 0]>>]

\* a variant of afterAttempt that reports every failed attempt to the callback
afterAttemptReportingEach(c, method, success) ==
    [c EXCEPT !.pc = IF success \/ method = "tcp" THEN "done"
                     ELSE IF method = "direct" THEN "stun" ELSE "tcp",
              !.tried = Append(@, [method |-> method, success |-> success]),
              !.callbacks =
                  Append(@, IF success
                            THEN [success |-> TRUE, ip |-> c.target.ip, port |-> c.target.port]
                            ELSE [success |-> FALSE, ip |-> <<>>, port |-> 0])]

\* what initiateHolePunch does with the result of an attempt: callback(true,
\* ip, port) and return at a success, the next method at a failure,
\* callback(false, "", 0) when the last method failed
afterAttempt(c, method, success) ==
    [c EXCEPT !.pc = IF success \/ method = "tcp" THEN "done"
                     ELSE IF method = "direct" THEN "stun" ELSE "tcp",
              !.tried = Append(@, [method |-> method, success |-> success]),
              !.callbacks =
                  IF success
                  THEN Append(@, [success |-> TRUE, ip |-> c.target.ip, port |-> c.target.port])
                  ELSE IF method = "tcp"
                  THEN Append(@, [success |-> FALSE, ip |-> <<>>, port |-> 0])
                  ELSE @]

\* the peers a hole punch is initiated with: node 2 on this host, a node
\* at the host's own address, a node at another address, a stranger behind a NAT
PunchTargets ==
    {Node(NetID(2), LocalIP, NetPort(2), StartMillis),
     Node(NetID(2), HostIP, NetPort(2), StartMillis),
     Node(NetID(2), OtherIP, NetPort(2), StartMillis),
     Node(StrangerID, PublicIP, StrangerPort, StartMillis)}

InitPunch ==
    /\ RtInit
    /\ buckets = EmptyTable
    /\ closest = NoClosest
    /\ ix = NoIndex
    /\ kad = [n \in NetNodes |-> [Constructed(n) EXCEPT !.running = (n = 2)]]
    /\ net = {}
    /\ history = {}
    /\ stores = 0
    /\ injected = 0
    /\ call = NoCall
    /\ hp \in {HolePuncherConstructed(HostIP), HolePuncherConstructed(<<>>)}

\* initiateHolePunch(target, callback) is called, no earlier call being under
\* way: the local path runs to its end, the general path stores the callback
\* under the target's ID
InitiateHolePunch(target, r) ==
    /\ call = NoCall \/ (call.op = "initiateHolePunch" /\ call.pc = "done")
    /\ IF isLocalConnectionOf(hp, target.ip)
       THEN /\ call' = localPath(target, r.success)
            /\ Transmit(net, r.sent)
            /\ hp' = hp
       ELSE /\ call' = Punching(target)
            /\ hp' = [hp EXCEPT !.pendingHolePunches = @ \cup {target.id}]
            /\ net' = net
    /\ UNCHANGED <<rtVars, closest, ix, kad, history, stores, injected>>

\* the attempt initiateHolePunch stands at returns r
Attempted(method, r) ==
    /\ call.op = "initiateHolePunch"
    /\ call.pc = method
    /\ call' = afterAttempt(call, method, r.success)
    /\ Transmit(net, r.sent)
    /\ UNCHANGED <<rtVars, closest, ix, hp, kad, history, stores, injected>>

NextPunch ==
    \/ \E target \in PunchTargets : \E o \in Outcomes("local") :
           InitiateHolePunch(target, attemptLocalConnection(target, o))
    \/ \E o \in Outcomes("direct") :
           Attempted("direct", attemptDirectConnection(call.target, o))
    \/ \E o \in Outcomes("stun") :
           Attempted("stun", attemptSTUNConnection(call.target, Endpoint(PublicIP, 5000), o))
    \/ \E o \in Outcomes("tcp") :
           Attempted("tcp", attemptTCPHolePunch(call.target, o))
    \/ \E n \in NetNodes : \E dg \in net : Deliver(n, dg)
    \/ \E dg \in net : Lose(dg)

SpecPunch == InitPunch /\ [][NextPunch]_vars

(***************************************************************************)
(* Datagrams of any content                                                *)
(*                                                                         *)
(* Hosts outside the model send the nodes texts that are no well-formed    *)
(* RPC, next to texts that are one.                                        *)
(***************************************************************************)
\* fields joined by ':' as the receiver's loop over msg.find(':', pos) splits them
RECURSIVE Joined(_)
Joined(fields) ==
    IF Len(fields) = 1 THEN fields[1]
    ELSE fields[1] \o <<Colon>> \o Joined(Tail(fields))

\* the six fields of a message from the stranger to node n, as texts
RawFields(n, type, payload) ==
    <<to_string(type), NodeIDToString(StrangerID), NodeIDToString(NetID(n)), LocalIP,
      to_string(StrangerPort), payload>>

\* the texts sent: "0:ab" (two fields); a type "x"; a sender of 39 digits; a
\* receiver with a 'g'; a port "p"; a FIND_NODE whose target is "zz"; a
\* well-formed PING
RawTexts(n) ==
    LET ping == RawFields(n, PING, <<>>)
    IN  { <<48, Colon, 97, 98>>,
          Joined([ping EXCEPT ![1] = <<120>>]),
          Joined([ping EXCEPT ![2] = Tail(@)]),
          Joined([ping EXCEPT ![3] = <<103>> \o Tail(@)]),
          Joined([ping EXCEPT ![5] = <<112>>]),
          Joined(RawFields(n, FIND_NODE, <<122, 122>>)),
          Joined(ping) }

\* a host outside the model sends the text to node n's port
InjectRaw(n, data) ==
    /\ injected < MaxInjected
    /\ injected' = injected + 1
    /\ Transmit(net, {Datagram(LocalIP, NetPort(n), data)})
    /\ UNCHANGED <<rtVars, closest, ix, callVars, kad, history, stores>>

\* one turn of the loop in processMessages, as Deliver, the datagram and the
\* node's state before and after it kept for observation
Receive(n, dg) ==
    /\ dg \in net
    /\ dg.ip = kad[n].ip /\ dg.port = kad[n].port
    /\ Alive(n)
    /\ kad[n].running
    /\ Effect(n, net \ {dg}, Received(kad[n], Deserialize(dg.data), now))
    /\ call' = [op |-> "processMessages", node |-> n, data |-> dg.data,
                before |-> kad[n], after |-> kad'[n],
                sent |-> Received(kad[n], Deserialize(dg.data), now).sent]
    /\ UNCHANGED <<rtVars, closest, ix, hp, history, stores, injected>>

NextRaw ==
    \/ \E n \in NetNodes : \E id \in BootstrapIDs(n) : Start(n, id)
    \/ \E n \in NetNodes : \E data \in RawTexts(n) : InjectRaw(n, data)
    \/ \E n \in NetNodes : \E dg \in net : Receive(n, dg)
    \/ \E dg \in net : Lose(dg)

SpecRaw == InitNet /\ [][NextRaw]_vars

(***************************************************************************)
(* An ID from its hex text                                                 *)
(***************************************************************************)
\* the characters tried at each position: 'g', ' ', '-', 'x', 'F', '7'
HexTrials == {103, 32, 45, 120, 70, 55}

\* texts handed to NodeID(hex): the 40 digits of an ID with one character
\* replaced, the same cut to 39 or grown to 41 characters, and the empty text
HexTexts ==
    LET digits == NodeIDToString(MkID(171, 205))
    IN  {[digits EXCEPT ![p] = c] : <<p, c>> \in (1..(KEY_BYTES * 2)) \X HexTrials}
        \cup {Tail(digits), digits \o <<48>>, <<>>}

\* NodeID::NodeID(const std::string& hex) is called on the text
ConstructNodeID(hex) ==
    /\ call = NoCall
    /\ call' = [op |-> "NodeID", hex |-> hex, result |-> NodeIDFromHex(hex)]
    /\ UNCHANGED <<rtVars, closest, ix, netVars, hp>>

NextHex == \E hex \in HexTexts : ConstructNodeID(hex)

SpecHex == InitNet /\ [][NextHex]_vars

(***************************************************************************)
(* The printable form of a key                                             *)
(***************************************************************************)
\* longest key tried
MaxKeyLen == 3

\* the bytes keys are made of: 0x00, 0x1f, ' ', '0', 'A', 'x', '~', 0x7f, 0xff
KeyBytes == {0, 31, 32, 48, 65, 120, 126, 127, 255}

RECURSIVE KeysOfLen(_)
KeysOfLen(n) ==
    IF n = 0 THEN {<<>>}
    ELSE {<<b>> \o k : <<b, k>> \in KeyBytes \X KeysOfLen(n - 1)}

\* every key of up to MaxKeyLen of those bytes
Keys == UNION {KeysOfLen(n) : n \in 0..MaxKeyLen}

\* DHTKey::DHTKey(const std::string& str): one byte per character
DHTKeyFromString(str) == [i \in 1..Len(str) |-> str[i] % 256]

\* DHTKey(data).toString(), and the key DHTKey(std::string) builds from it
PrintKey(data) ==
    /\ call = NoCall
    /\ call' = [op |-> "toString", data |-> data, text |-> DHTKeyToString(data),
                rebuilt |-> DHTKeyFromString(DHTKeyToString(data))]
    /\ UNCHANGED <<rtVars, closest, ix, netVars, hp>>

NextKey == \E data \in Keys : PrintKey(data)

SpecKey == InitNet /\ [][NextKey]_vars

(***************************************************************************)
(* STUN: the mapped address of a Binding response                          *)
(*                                                                         *)
(* A uint32_t is kept as its two 16-bit halves <<high, low>>, a uint16_t   *)
(* as one number below 65536.  response[i] of the code is At(response, i). *)
(***************************************************************************)
STUN_BINDING_RESPONSE == 257

STUN_ATTR_MAPPED_ADDRESS == 1

STUN_ATTR_XOR_MAPPED_ADDRESS == 32

\* 0x2112A442
STUN_MAGIC_COOKIE == <<8466, 42050>>

\* response[i], i counted from 0
At(response, i) == response[i + 1]

\* (response[i] << 8) | response[i + 1]
U16At(response, i) == (At(response, i) * 256) + At(response, i + 1)

\* (response[i] << 24) | (response[i + 1] << 16) | (response[i + 2] << 8) | response[i + 3]
U32At(response, i) == <<U16At(response, i), U16At(response, i + 2)>>

\* uint32_t ^ uint32_t
Xor32(a, b) == <<XorBits(a[1], b[1]), XorBits(a[2], b[2])>>

\* addr.s_addr = htonl(word), then inet_ntop(AF_INET, ...): dotted decimal,
\* the most significant byte first
inet_ntop(word) ==
    to_string(word[1] \div 256) \o <<46>> \o to_string(word[1] % 256) \o <<46>>
    \o to_string(word[2] \div 256) \o <<46>> \o to_string(word[2] % 256)

\* what parseStunResponse leaves: its return value, mappedIP and mappedPort
Mapped(ip, port) == [ok |-> TRUE, ip |-> ip, port |-> port]

NotMapped == [ok |-> FALSE, ip |-> <<>>, port |-> 0]

\* a variant of xorMappedPort that takes the low half of the magic cookie
xorMappedPortLowHalf(response, pos) == XorBits(U16At(response, pos + 2), STUN_MAGIC_COOKIE[2])

\* uint16_t xorPort = ((response[pos + 2] << 8) | response[pos + 3]) ^ (STUN_MAGIC_COOKIE >> 16)
xorMappedPort(response, pos) == XorBits(U16At(response, pos + 2), STUN_MAGIC_COOKIE[1])

\* pos after an attribute of that length, aligned to the 4-byte boundary
nextAttribute(pos, attrLength) ==
    pos + attrLength + (IF attrLength % 4 # 0 THEN 4 - (attrLength % 4) ELSE 0)

\* the while loop of parseStunResponse from pos on
RECURSIVE parseAttributes(_, _, _)
parseAttributes(response, start, messageLength) ==
    IF ~(start + 4 <= Len(response) /\ start - 20 < messageLength) THEN NotMapped
    ELSE LET attrType == U16At(response, start)
             attrLength == U16At(response, start + 2)
             pos == start + 4
             address == attrType \in {STUN_ATTR_XOR_MAPPED_ADDRESS, STUN_ATTR_MAPPED_ADDRESS}
         IN  IF pos + attrLength > Len(response) THEN NotMapped
             ELSE IF address /\ (attrLength < 8 \/ At(response, pos + 1) # 1)
             THEN parseAttributes(response, pos + attrLength, messageLength)
             ELSE IF attrType = STUN_ATTR_XOR_MAPPED_ADDRESS
             THEN Mapped(inet_ntop(Xor32(U32At(response, pos + 4), STUN_MAGIC_COOKIE)),
                         xorMappedPort(response, pos))
             ELSE IF attrType = STUN_ATTR_MAPPED_ADDRESS
             THEN Mapped(inet_ntop(U32At(response, pos + 4)), U16At(response, pos + 2))
             ELSE parseAttributes(response, nextAttribute(pos, attrLength), messageLength)

\* parseStunResponse(response, mappedIP, mappedPort)
parseStunResponse(response) ==
    IF Len(response) < 20 THEN NotMapped
    ELSE IF U16At(response, 0) # STUN_BINDING_RESPONSE THEN NotMapped
    ELSE IF U32At(response, 4) # STUN_MAGIC_COOKIE THEN NotMapped
    ELSE parseAttributes(response, 20, U16At(response, 2))

\* the bytes of an address and the ports a server may report
AddressBytes == {0, 33, 127, 128, 255}

StunPorts == {0, 1, 8466, 32768, 65535}

\* the big-endian bytes of a uint16_t
Bytes16(v) == <<v \div 256, v % 256>>

\* the header of a message: type, length, magic cookie, a transaction ID
StunHeader(type, length, cookie) ==
    Bytes16(type) \o Bytes16(length) \o Bytes16(cookie[1]) \o Bytes16(cookie[2])
    \o [i \in 1..12 |-> i]

\* an address attribute of 8 bytes: reserved, family, port, address
AddressAttribute(type, family, port, word) ==
    Bytes16(type) \o Bytes16(8) \o <<0, family>> \o Bytes16(port)
    \o Bytes16(word[1]) \o Bytes16(word[2])

\* the messages a server answers with for address a (its two halves) and
\* port p: a Binding response carrying XOR-MAPPED-ADDRESS; the same behind a
\* SOFTWARE attribute of 3 bytes; one carrying MAPPED-ADDRESS; one of family
\* IPv6; a Binding error response; one with another cookie; a cut header
StunResponses(a, p) ==
    LET xored == AddressAttribute(STUN_ATTR_XOR_MAPPED_ADDRESS, 1,
                                  XorBits(p, STUN_MAGIC_COOKIE[1]), Xor32(a, STUN_MAGIC_COOKIE))
    IN  [xor |-> StunHeader(STUN_BINDING_RESPONSE, 12, STUN_MAGIC_COOKIE) \o xored,
         software |-> StunHeader(STUN_BINDING_RESPONSE, 20, STUN_MAGIC_COOKIE)
                      \o <<128, 34, 0, 3, 120, 121, 122, 0>> \o xored,
         plain |-> StunHeader(STUN_BINDING_RESPONSE, 12, STUN_MAGIC_COOKIE)
                   \o AddressAttribute(STUN_ATTR_MAPPED_ADDRESS, 1, p, a),
         ipv6 |-> StunHeader(STUN_BINDING_RESPONSE, 12, STUN_MAGIC_COOKIE)
                  \o AddressAttribute(STUN_ATTR_XOR_MAPPED_ADDRESS, 2, p, a),
         error |-> StunHeader(273, 12, STUN_MAGIC_COOKIE) \o xored,
         cookie |-> StunHeader(STUN_BINDING_RESPONSE, 12, <<0, 0>>) \o xored,
         short |-> SubSeq(StunHeader(STUN_BINDING_RESPONSE, 12, STUN_MAGIC_COOKIE), 1, 19)]

\* parseStunResponse is called on the server's answer of that kind
ParseStunResponse(kind, a, p) ==
    /\ call = NoCall
    /\ call' = [op |-> "parseStunResponse", kind |-> kind, address |-> a, port |-> p,
                result |-> parseStunResponse(StunResponses(a, p)[kind])]
    /\ UNCHANGED <<rtVars, closest, ix, netVars, hp>>

NextStun ==
    \E kind \in DOMAIN StunResponses(<<0, 0>>, 0) :
        \E b \in AddressBytes \X AddressBytes \X AddressBytes \X AddressBytes :
            \E p \in StunPorts :
                ParseStunResponse(kind, <<(b[1] * 256) + b[2], (b[3] * 256) + b[4]>>, p)

SpecStun == InitNet /\ [][NextStun]_vars

(***************************************************************************)
(* Requests answered from a prepared node                                  *)
(*                                                                         *)
(* Node 1 runs with a table of none to K_VALUE + 1 peers and a store that  *)
(* is empty or holds "a" -> "x"; it receives FIND_NODE and FIND_VALUE      *)
(* requests from a peer its table may hold and from one it does not.       *)
(***************************************************************************)
\* the tables: bucket 0 with 0, 2, K_VALUE - 1 or K_VALUE peers, and the
\* full bucket 0 beside node 2 in another bucket
AnswerTables ==
    { Filled(NetID(1), j) : j \in {0, 2, K_VALUE - 1, K_VALUE} }
    \cup { RoutingTableAddNode(NetID(1), Filled(NetID(1), K_VALUE), Neighbour,
                               StartMillis).buckets }

\* the requests: FIND_NODE for the stranger's ID or for FarPeer(3),
\* FIND_VALUE for "a" or for "b"
AnswerRequests ==
    ({FIND_NODE} \X {NodeIDToString(StrangerID), NodeIDToString(FarPeer(3))})
    \cup ({FIND_VALUE} \X {<<97>>, <<98>>})

AnswerMessages(n) ==
    { RPCMessage(rq[1], FarPeer(j), NetID(n), OtherIP, NetPort(j + 100), rq[2])
      : <<j, rq>> \in UpsertSenders \X AnswerRequests }

InitAnswer ==
    /\ RtInit
    /\ buckets = EmptyTable
    /\ closest = NoClosest
    /\ ix = NoIndex
    /\ \E table \in AnswerTables : \E held \in {Constructed(1), Holder(1)} :
           kad = [n \in NetNodes |->
                     IF n = 1
                     THEN [Constructed(1) EXCEPT !.running = TRUE,
                                                 !.routingTable = table,
                                                 !.storage = held.storage,
                                                 !.storageTimestamps = held.storageTimestamps]
                     ELSE Constructed(n)]
    /\ net = {}
    /\ history = {}
    /\ stores = 0
    /\ injected = 0
    /\ call = NoCall
    /\ hp = HolePuncherConstructed(HostIP)

NextAnswer ==
    \/ \E m \in AnswerMessages(1) : Inject(1, m)
    \/ \E n \in NetNodes : \E dg \in net : Receive(n, dg)
    \/ \E dg \in net : Lose(dg)

SpecAnswer == InitAnswer /\ [][NextAnswer]_vars

(***************************************************************************)
(* One exchange between two running nodes                                  *)
(*                                                                         *)
(* Nodes 1 and 2 run; node 1 knows node 2, alone or beside a peer that is  *)
(* not running, and node 2 may know node 1.  The application makes one     *)
(* ping() or one findNode() call, and the receivers handle what arrives.   *)
(***************************************************************************)
\* node n as the other node's table holds it
PeerNode(n) == Node(NetID(n), LocalIP, NetPort(n), StartMillis)

InitExchange ==
    /\ RtInit
    /\ buckets = EmptyTable
    /\ closest = NoClosest
    /\ ix = NoIndex
    /\ \E j \in {0, 3} : \E known \in BOOLEAN :
           kad = [n \in NetNodes |->
                     [Constructed(n) EXCEPT
                         !.running = TRUE,
                         !.routingTable =
                             IF n = 2 /\ ~known THEN EmptyTable
                             ELSE RoutingTableAddNode(NetID(n),
                                                      IF n = 1 THEN Filled(NetID(1), j)
                                                      ELSE EmptyTable,
                                                      PeerNode(3 - n), StartMillis).buckets]]
    /\ net = {}
    /\ history = {}
    /\ stores = 0
    /\ injected = 0
    /\ call = NoCall
    /\ hp = HolePuncherConstructed(HostIP)

\* datagrams answered in one exchange before the model stops following it
MaxReplies == 3

\* the application's one call on node n sends these datagrams
Calls(n, op, sent) ==
    /\ call = NoCall
    /\ Alive(n)
    /\ call' = [op |-> op, node |-> n, replies |-> 0]
    /\ Transmit(net, sent)
    /\ UNCHANGED <<rtVars, closest, ix, hp, kad, history, stores, injected>>

\* Kademlia::ping(node) for the peer with that ID
PingCall(n, id) ==
    Calls(n, "ping", sendRPC(kad[n], RPCMessage(PING, kad[n].id, id, kad[n].ip, kad[n].port,
                                               <<>>)))

\* Kademlia::findNode(target, callback): one round of nodeLookup
FindNodeCall(n, target) == Calls(n, "findNode", nodeLookup(kad[n], target).sent)

\* one turn of the loop in processMessages on a datagram of the exchange, as
\* Deliver; the turns in which the handler sent a datagram are counted
Answer(n, dg, r) ==
    /\ dg \in net
    /\ dg.ip = kad[n].ip /\ dg.port = kad[n].port
    /\ Alive(n)
    /\ kad[n].running
    /\ call # NoCall
    /\ call.replies < MaxReplies
    /\ Effect(n, net \ {dg}, r)
    /\ call' = [call EXCEPT !.replies = IF r.sent # {} THEN @ + 1 ELSE @]
    /\ UNCHANGED <<rtVars, closest, ix, hp, history, stores, injected>>

\* a datagram for a port no running node is bound to goes nowhere
Undeliverable(dg) ==
    /\ \A n \in NetNodes :
           ~(Alive(n) /\ kad[n].running /\ dg.ip = kad[n].ip /\ dg.port = kad[n].port)
    /\ Lose(dg)

NextExchange ==
    \/ \E n \in NetNodes : PingCall(n, NetID(3 - n))
    \/ \E n \in NetNodes : \E target \in LookupTargets : FindNodeCall(n, target)
    \/ \E n \in NetNodes : \E dg \in net :
           Answer(n, dg, Received(kad[n], Deserialize(dg.data), now))
    \/ \E dg \in net : Undeliverable(dg)
    \/ Tick

SpecExchange == InitExchange /\ [][NextExchange]_vars

(***************************************************************************)
(* The threads of a node                                                   *)
(*                                                                         *)
(* start() spawns the message thread and the maintenance thread; stop()    *)
(* clears running_ and joins both.  pc holds where the application's       *)
(* thread, the message thread and the maintenance thread of node 1 stand;  *)
(* kad[1].storageMutex holds the thread that owns storageMutex_ between    *)
(* two steps.  Each phase of the maintenance cycle is one step; a handler  *)
(* of the message thread takes and releases storageMutex_ within its step. *)
(***************************************************************************)
\* maintenance cycles the model follows to their end
MaxCycles == 1

Workers == {"main", "message", "maintenance"}

\* what the model keeps about the maintenance thread: the cycles completed,
\* the calls of the current cycle that have returned, the targets
\* refreshBuckets looked up in the current cycle, whether store() reached
\* its lock_guard while republishKeys held storageMutex_
Maintenance(cycles, phases, lookups, relocked) ==
    [cycles |-> cycles, phases |-> phases, lookups |-> lookups, relocked |-> relocked]

\* id[bytePos] ^= (1 << bitPos), bytePos = i / 8, bitPos = 7 - (i % 8)
refreshTarget(id, i) == [id EXCEPT ![(i \div 8) + 1] = XorByte(@, 2 ^ (7 - (i % 8)))]

\* Kademlia::refreshBuckets: for i from 0 to KEY_BITS - 1, in this order, a
\* nodeLookup(target, nullptr) of the local ID with bit i flipped
refreshBuckets(k) ==
    [sent |-> UNION {nodeLookup(k, refreshTarget(k.id, i)).sent : i \in 0..(KEY_BITS - 1)},
     lookups |-> [j \in 1..KEY_BITS |-> refreshTarget(k.id, j - 1)]]

\* store(key, value, nullptr) for each remaining entry of storage_, the key
\* rebuilt from the entry's string
RECURSIVE republishAll(_, _, _)
republishAll(k, keys, t) ==
    IF keys = {} THEN [kad |-> k, sent |-> {}]
    ELSE LET keyStr == CHOOSE x \in keys : TRUE
             r == store(k, DHTKeyFromString(keyStr), k.storage[keyStr], t)
             rest == republishAll(r.kad, keys \ {keyStr}, t)
         IN  [kad |-> rest.kad, sent |-> r.sent \cup rest.sent]

\* what std::mutex::lock does when the calling thread owns the mutex
\* (undefined behaviour): it never returns, it throws std::system_error, or
\* it returns as if the mutex had been free
RelockOutcomes == {"blocks", "throws", "acquires"}

\* the outcome of republishKeys: the node, the datagrams, where the thread stands
Republished(k, sent, at, relocked) ==
    [kad |-> k, sent |-> sent, pc |-> at, relocked |-> relocked]

\* Kademlia::republishKeys at time t, storageMutex_ taken by its lock_guard:
\* store() for each entry; the callback store() hands to nodeLookup runs in
\* the same thread and, given peers, comes to its own lock_guard on
\* storageMutex_
republishKeys(k, t, outcome) ==
    LET keys == DOMAIN k.storage
        found == nodeLookup(k, hashKey(DHTKeyFromString(CHOOSE x \in keys : TRUE)))
        all == republishAll(k, keys, t)
    IN  IF keys = {} THEN Republished(k, {}, "expire", FALSE)
        ELSE IF ~found.success THEN Republished(all.kad, all.sent, "expire", FALSE)
        ELSE CASE outcome = "blocks" ->
                      Republished([k EXCEPT !.storageMutex = "maintenance"], found.sent,
                                  "relock", TRUE)
               [] outcome = "throws" ->
                      Republished([k EXCEPT !.terminated = TRUE], found.sent, "thrown", TRUE)
               [] OTHER -> Republished(all.kad, all.sent, "expire", TRUE)

\* the STORE a host sends to node n under node n's own ID
SpoofedStore(n) == RPCMessage(STORE, NetID(n), NetID(n), LocalIP, SpoofPort, <<97, 120>>)

InitWorkers ==
    /\ localID = ZeroID
    /\ buckets = EmptyTable
    /\ mutex = [b \in BucketIndexes |-> NoThread]
    /\ pc = [w \in Workers |-> IF w = "main" THEN "idle" ELSE "unstarted"]
    /\ arg = [w \in Workers |-> Maintenance(0, <<>>, <<>>, FALSE)]
    /\ ret = [w \in Workers |-> NoRet]
    /\ now = StartMillis
    /\ calls = 0
    /\ ticks = 0
    /\ closest = NoClosest
    /\ ix = NoIndex
    /\ NetInit

\* what the steps of the threads leave alone
WorkerFrame == <<localID, buckets, mutex, ret, now, calls, ticks, closest, ix, callVars,
                 history, stores, injected>>

\* Kademlia::start() on node 1: running_ set, both threads spawned, bootstrap()
StartWorkers(bootstrapID) ==
    /\ Alive(1)
    /\ pc["main"] = "idle"
    /\ pc["message"] = "unstarted"
    /\ ~kad[1].running
    /\ Effect(1, net, started([kad[1] EXCEPT !.running = TRUE], bootstrapID, now))
    /\ pc' = [pc EXCEPT !["message"] = "poll", !["maintenance"] = "loop"]
    /\ UNCHANGED <<arg, WorkerFrame>>

\* store(key, value, ...) by the application's thread, the lookup of store()
\* having found the peers of found: given peers, the callback comes to its
\* lock_guard, and waits there when storageMutex_ is held
StoreCalled(key, value, found) ==
    /\ Alive(1)
    /\ pc["main"] = "idle"
    /\ stores < MaxStores
    /\ stores' = stores + 1
    /\ history' = history \cup {<<1, key, value>>}
    /\ IF found.success /\ kad[1].storageMutex # NoThread
       THEN /\ Transmit(net, found.sent)
            /\ kad' = kad
            /\ pc' = [pc EXCEPT !["main"] = "lock"]
       ELSE /\ Effect(1, net, storeAmong(kad[1], key, value, now, found))
            /\ pc' = pc
    /\ UNCHANGED <<localID, buckets, mutex, arg, ret, now, calls, ticks, closest, ix, callVars,
                   injected>>

\* while (running_) of the maintenance thread
MaintenanceLoop ==
    /\ Alive(1)
    /\ pc["maintenance"] = "loop"
    /\ pc' = [pc EXCEPT !["maintenance"] = IF kad[1].running THEN "refresh" ELSE "exited"]
    /\ arg' = [arg EXCEPT !["maintenance"].lookups = <<>>, !["maintenance"].phases = <<>>]
    /\ UNCHANGED <<kad, net, WorkerFrame>>

\* refreshBuckets() returns r
Refreshed(r) ==
    /\ Alive(1)
    /\ pc["maintenance"] = "refresh"
    /\ arg["maintenance"].cycles < MaxCycles
    /\ Transmit(net, r.sent)
    /\ pc' = [pc EXCEPT !["maintenance"] = "republish"]
    /\ arg' = [arg EXCEPT !["maintenance"].lookups = r.lookups,
                           !["maintenance"].phases = Append(@, "refreshBuckets")]
    /\ UNCHANGED <<kad, WorkerFrame>>

\* republishKeys() takes storageMutex_ and runs to r: to its end, where the
\* lock_guard releases the mutex, or to the point where the thread stays
RepublishedKeys(r) ==
    /\ Alive(1)
    /\ pc["maintenance"] = "republish"
    /\ kad[1].storageMutex = NoThread
    /\ Effect(1, net, r)
    /\ pc' = [pc EXCEPT !["maintenance"] = r.pc]
    /\ arg' = [arg EXCEPT !["maintenance"].relocked = @ \/ r.relocked,
                           !["maintenance"].phases =
                               IF r.pc = "expire" THEN Append(@, "republishKeys") ELSE @]
    /\ UNCHANGED WorkerFrame

\* expireKeys() under its lock_guard
ExpiredKeys ==
    /\ Alive(1)
    /\ pc["maintenance"] = "expire"
    /\ kad[1].storageMutex = NoThread
    /\ kad' = [kad EXCEPT ![1] = expireKeys(kad[1], now)]
    /\ pc' = [pc EXCEPT !["maintenance"] = "sleep"]
    /\ arg' = [arg EXCEPT !["maintenance"].phases = Append(@, "expireKeys")]
    /\ UNCHANGED <<net, WorkerFrame>>

\* std::this_thread::sleep_for(std::chrono::minutes(10)) returns
Woken ==
    /\ Alive(1)
    /\ pc["maintenance"] = "sleep"
    /\ pc' = [pc EXCEPT !["maintenance"] = "loop"]
    /\ arg' = [arg EXCEPT !["maintenance"].cycles = @ + 1]
    /\ UNCHANGED <<kad, net, WorkerFrame>>

\* the handler of the message needs storageMutex_
LocksStorage(parsed) ==
    parsed.outcome = "message" /\ parsed.message.type \in {STORE, FIND_VALUE}

\* one turn of the loop in processMessages with a datagram: as Deliver, but a
\* STORE or FIND_VALUE handler that finds storageMutex_ held waits at its
\* lock_guard, the sender already added to the table
Polled(dg, parsed) ==
    /\ Alive(1)
    /\ pc["message"] = "poll"
    /\ kad[1].running
    /\ dg \in net
    /\ dg.ip = kad[1].ip /\ dg.port = kad[1].port
    /\ IF LocksStorage(parsed) /\ kad[1].storageMutex # NoThread
       THEN /\ kad' = [kad EXCEPT ![1] =
                           SenderAdded(@, Node(parsed.message.sender, parsed.message.senderIP,
                                               parsed.message.senderPort, now), now)]
            /\ net' = net \ {dg}
            /\ pc' = [pc EXCEPT !["message"] = "lock"]
       ELSE /\ Effect(1, net \ {dg}, Received(kad[1], parsed, now))
            /\ pc' = pc
    /\ UNCHANGED <<arg, WorkerFrame>>

\* while (running_) of the message thread finds the flag cleared
MessageExit ==
    /\ Alive(1)
    /\ pc["message"] = "poll"
    /\ ~kad[1].running
    /\ pc' = [pc EXCEPT !["message"] = "exited"]
    /\ UNCHANGED <<kad, net, arg, WorkerFrame>>

\* Kademlia::stop(): running_ = false, then the first join
StopCall ==
    /\ Alive(1)
    /\ pc["main"] = "idle"
    /\ kad[1].running
    /\ kad' = [kad EXCEPT ![1].running = FALSE]
    /\ pc' = [pc EXCEPT !["main"] = "join_message"]
    /\ UNCHANGED <<net, arg, WorkerFrame>>

\* a join of stop() returns once the thread has left its function
JoinReturns(at, worker, next) ==
    /\ Alive(1)
    /\ pc["main"] = at
    /\ pc[worker] = "exited"
    /\ pc' = [pc EXCEPT !["main"] = next]
    /\ UNCHANGED <<kad, net, arg, WorkerFrame>>

NextWorkers ==
    \/ \E id \in BootstrapIDs(1) : StartWorkers(id)
    \/ StoreCalled(<<97>>, <<120>>, nodeLookup(kad[1], hashKey(<<97>>)))
    \/ MaintenanceLoop
    \/ Refreshed(refreshBuckets(kad[1]))
    \/ \E outcome \in RelockOutcomes : RepublishedKeys(republishKeys(kad[1], now, outcome))
    \/ ExpiredKeys
    \/ Woken
    \/ \E dg \in net : Polled(dg, Deserialize(dg.data))
    \/ MessageExit
    \/ StopCall
    \/ JoinReturns("join_message", "message", "join_maintenance")
    \/ JoinReturns("join_maintenance", "maintenance", "returned")
    \/ \E m \in {StrangerStore(1), SpoofedStore(1)} : Inject(1, m)
    \/ \E dg \in net : Lose(dg)

SpecWorkers == InitWorkers /\ [][NextWorkers]_vars

(***************************************************************************)
(* The program's start                                                     *)
(*                                                                         *)
(* main() constructs the node from --port and --bootstrap and calls        *)
(* start().  call keeps the arguments and the node as start() left it.     *)
(***************************************************************************)
\* Kademlia::Kademlia(port, bootstrapIP, bootstrapPort) for node n: the local
\* node is made of a random ID, "127.0.0.1" and port
Kademlia(n, port, bootstrapIP, bootstrapPort) == [Constructed(n) EXCEPT !.port = port]

\* the values of --port: the node's port, or 0
MainPorts(n) == {NetPort(n), 0}

\* the values of --bootstrap: none, the endpoint of the other node, or an
\* endpoint of another host
MainBootstraps(n) ==
    {[ip |-> <<>>, port |-> 0]}
    \cup {[ip |-> LocalIP, port |-> NetPort(m)] : m \in NetNodes \ {n}}
    \cup {[ip |-> HostIP, port |-> NetPort(2)]}

\* main(): dht(port, bootstrapIP, bootstrapPort), then dht.start()
Main(n, port, bootstrapAt, bootstrapID) ==
    /\ Alive(n)
    /\ ~kad[n].running
    /\ LET r == started([Kademlia(n, port, bootstrapAt.ip, bootstrapAt.port)
                             EXCEPT !.running = TRUE], bootstrapID, now)
       IN  /\ Effect(n, net, r)
           /\ call' = [op |-> "main", node |-> n, port |-> port,
                       bootstrapIP |-> bootstrapAt.ip, bootstrapPort |-> bootstrapAt.port,
                       after |-> r.kad]
    /\ UNCHANGED <<rtVars, closest, ix, hp, history, stores, injected>>

NextMain ==
    \/ \E n \in NetNodes : \E port \in MainPorts(n) : \E at \in MainBootstraps(n) :
           \E id \in BootstrapIDs(n) : Main(n, port, at, id)
    \/ \E n \in NetNodes : \E dg \in net : Deliver(n, dg)
    \/ \E dg \in net : Lose(dg)

SpecMain == InitNet /\ [][NextMain]_vars

(***************************************************************************)
(* The hole puncher: the queries of NAT classification                     *)
(*                                                                         *)
(* detectNATType() step by step: getPublicEndpoint() asks the servers of   *)
(* STUN_SERVERS in turn, each on a socket of its own, until one answers;   *)
(* then a test socket is bound and one request goes to the second server.  *)
(* call keeps the server and the local port of each query.                 *)
(***************************************************************************)
\* const std::vector<std::pair<std::string, uint16_t>> STUN_SERVERS
STUN_SERVERS ==
    << <<"stun.l.google.com", 19302>>, <<"stun1.l.google.com", 19302>>,
       <<"stun2.l.google.com", 19302>>, <<"stun.ekiga.net", 3478>>,
       <<"stun.ideasip.com", 3478>>, <<"stun.schlund.de", 3478>> >>

\* the local ports the OS gives to sockets that ask for any port
EphemeralPorts == {6000, 6001}

\* the position in STUN_SERVERS of the server detectNATType sends its own
\* request to: STUN_SERVERS[1] of the code when the list has more than one
secondServer == IF Len(STUN_SERVERS) > 1 THEN 2 ELSE 1

\* one query: the server's position in STUN_SERVERS, the socket's local port
Query(server, port) == [server |-> server, port |-> port]

\* detectNATType() is entered: getPublicEndpoint() starts at the first server
ProbeCalled ==
    /\ call = NoCall
    /\ call' = [op |-> "detectNATType", at |-> "first", next |-> 1, before |-> hp,
                first |-> <<>>, E1 |-> <<>>, second |-> <<>>, B |-> <<>>, result |-> "none"]
    /\ UNCHANGED <<hp, rtVars, closest, ix, netVars>>

\* getPublicEndpointFromServer(STUN_SERVERS[next]) on a fresh socket the OS
\* gave the local port: no parsed reply (answer = <<>>) moves on to the next
\* server, or returns UNKNOWN after the last; a parsed reply is stored as
\* the public endpoint
FirstQuery(port, answer) ==
    /\ call # NoCall /\ call.op = "detectNATType" /\ call.at = "first"
    /\ IF answer = <<>>
       THEN /\ call' = IF call.next = Len(STUN_SERVERS)
                       THEN [call EXCEPT !.at = "done", !.result = "UNKNOWN"]
                       ELSE [call EXCEPT !.next = @ + 1]
            /\ hp' = hp
       ELSE /\ call' = [call EXCEPT !.at = "bind", !.first = <<Query(call.next, port)>>,
                                    !.E1 = answer]
            /\ hp' = [hp EXCEPT !.connectionInfo.publicIP = answer[1].ip,
                                !.connectionInfo.publicPort = answer[1].port]
    /\ UNCHANGED <<rtVars, closest, ix, netVars>>

\* socket(), bind() to port 0 and getsockname() of the test socket: a step
\* that fails returns UNKNOWN, else the OS's port is stored as the local port
TestSocket(port, local) ==
    /\ call # NoCall /\ call.op = "detectNATType" /\ call.at = "bind"
    /\ IF local # "ok"
       THEN /\ call' = [call EXCEPT !.at = "done", !.result = "UNKNOWN"]
            /\ hp' = hp
       ELSE /\ call' = [call EXCEPT !.at = "second",
                                    !.second = <<Query(secondServer, port)>>]
            /\ hp' = Bound(hp, port)
    /\ UNCHANGED <<rtVars, closest, ix, netVars>>

\* the request to the second server from the test socket, and the verdict
SecondQuery(second) ==
    /\ call # NoCall /\ call.op = "detectNATType" /\ call.at = "second"
    /\ LET r == secondQuery(hp, call.E1[1], second)
       IN  /\ call' = [call EXCEPT !.at = "done", !.B = <<second>>, !.result = r.result]
           /\ hp' = r.hp
    /\ UNCHANGED <<rtVars, closest, ix, netVars>>

NextProbe ==
    \/ ProbeCalled
    \/ \E port \in EphemeralPorts : \E answer \in {<<>>} \cup {<<ep>> : ep \in Endpoints} :
           FirstQuery(port, answer)
    \/ \E port \in EphemeralPorts : \E local \in {"ok", "socket", "bind", "getsockname"} :
           TestSocket(port, local)
    \/ \E second \in SecondOutcomes : SecondQuery(second)

SpecProbe == InitNat /\ [][NextProbe]_vars

(***************************************************************************)
(* Republishing the records of the local store                             *)
(*                                                                         *)
(* Node 1 runs with node 2 as its peer; the application stores a record    *)
(* under a key that is empty, not printable or printable, time passes, and *)
(* republishKeys() runs once.                                              *)
(***************************************************************************)
\* the keys of the records: no byte, the byte 0x01, "a", "0x01"
HeldKeys == {<<>>, <<1>>, <<97>>, <<48, 120, 48, 49>>}

\* republishKeys() of the maintenance thread on node 1 runs to r
RepublishCall(r) ==
    /\ call = NoCall
    /\ Alive(1)
    /\ kad[1].running
    /\ kad[1].storageMutex = NoThread
    /\ Effect(1, net, r)
    /\ call' = [op |-> "republishKeys", node |-> 1, at |-> now, before |-> kad[1],
                after |-> r.kad, sent |-> r.sent, returned |-> r.pc = "expire"]
    /\ UNCHANGED <<rtVars, closest, ix, hp, history, stores, injected>>

NextRepublish ==
    \/ \E key \in HeldKeys : Store(1, key, <<120>>)
    \/ Tick
    \/ \E outcome \in RelockOutcomes : RepublishCall(republishKeys(kad[1], now, outcome))
    \/ \E dg \in net : Lose(dg)

SpecRepublish == InitExpiry /\ [][NextRepublish]_vars

(***************************************************************************)
(* Records under several keys                                              *)
(*                                                                         *)
(* Node 1 runs with node 2 as its peer.  The application stores records    *)
(* under different keys, each key once, and a stranger sends a STORE.      *)
(***************************************************************************)
\* store() calls of a behaviour of this section
MaxRecords == 2

\* the keys of the records: the byte 0x01, "0x01", "a"
RecordKeys == {<<1>>, <<48, 120, 48, 49>>, <<97>>}

\* the STORE of 0x01 -> "z" a stranger sends to node n
ForeignRecord(n) == RPCMessage(STORE, StrangerID, NetID(n), LocalIP, StrangerPort, <<1, 122>>)

\* store(key, value, callback) on node 1, for a key not stored before
StoreRecord(key, value) ==
    /\ Alive(1)
    /\ Cardinality(history) < MaxRecords
    /\ \A h \in history : h[2] # key
    /\ history' = history \cup {<<1, key, value>>}
    /\ Effect(1, net, store(kad[1], key, value, now))
    /\ UNCHANGED <<rtVars, closest, ix, callVars, stores, injected>>

NextRecords ==
    \/ \E key \in RecordKeys : \E value \in {<<120>>, <<121>>} : StoreRecord(key, value)
    \/ Inject(1, ForeignRecord(1))
    \/ \E dg \in net : Deliver(1, dg)
    \/ \E dg \in net : Lose(dg)

SpecRecords == InitExpiry /\ [][NextRecords]_vars

(***************************************************************************)
(* The hole puncher: accesses to its shared members                        *)
(*                                                                         *)
(* The application's thread calls detectNATType(), getPublicEndpoint(),    *)
(* initiateHolePunch(), updateConnectionInfo() and getConnectionInfo();    *)
(* the receiver thread runs handleHolePunchRequest() for each              *)
(* HOLE_PUNCH_REQUEST.  A call is the sequence of its accesses to          *)
(* connectionInfo_ and pendingHolePunches_; an access begins and ends in   *)
(* separate steps, under a lock_guard on mutex_ or without one.  Of the    *)
(* values only the local address and port set after the bind are kept.     *)
(***************************************************************************)
\* one access: the members read, the members written, whether the code
\* holds a lock_guard on mutex_ around it, what it leaves in the object
Access(reads, writes, locked, effect) ==
    [reads |-> reads, writes |-> writes, locked |-> locked, effect |-> effect]

InfoFields == {"publicIP", "publicPort", "localIP", "localPort", "natType"}

\* getPublicEndpointFromServer storing the endpoint a server reported
StoresPublicEndpoint == Access({}, {"publicIP", "publicPort"}, TRUE, "none")

\* isLocalConnection: ip == connectionInfo_.localIP
ReadsLocalIP == Access({"localIP"}, {}, FALSE, "none")

\* if (connectionInfo_.localPort != 0) before a bind
ReadsLocalPort == Access({"localPort"}, {}, FALSE, "none")

\* detectNATType() on hole puncher h, both servers answering: the endpoint of
\* getPublicEndpoint(), the local address and port after the bind, the
\* comparison publicIP1 == connectionInfo_.localIP, the final update
detectNATTypeAccesses(h) ==
    <<StoresPublicEndpoint,
      Access({"localIP"},
             IF h.connectionInfo.localIP = <<>> THEN {"localIP", "localPort"} ELSE {"localPort"},
             TRUE, "bound"),
      ReadsLocalIP,
      Access({}, {"natType", "publicIP", "publicPort"}, TRUE, "none")>>

\* initiateHolePunch(): isLocalConnection; on the general path the callback
\* is stored, and attemptSTUNConnection asks for the public endpoint and
\* looks at the local port
initiateHolePunchAccesses(local) ==
    IF local THEN <<ReadsLocalIP>>
    ELSE <<ReadsLocalIP, Access({}, {"pendingHolePunches"}, TRUE, "none"),
           StoresPublicEndpoint, ReadsLocalPort>>

\* handleHolePunchRequest(): isLocalConnection; for a requester elsewhere
\* getPublicEndpoint() and the look at the local port
handleHolePunchRequestAccesses(local) ==
    IF local THEN <<ReadsLocalIP>>
    ELSE <<ReadsLocalIP, StoresPublicEndpoint, ReadsLocalPort>>

\* the calls of the application's thread on hole puncher h
MainCalls(h) ==
    {[op |-> "detectNATType", accesses |-> detectNATTypeAccesses(h)],
     [op |-> "getPublicEndpoint", accesses |-> <<StoresPublicEndpoint>>],
     [op |-> "updateConnectionInfo", accesses |-> <<Access({}, InfoFields, TRUE, "none")>>],
     [op |-> "getConnectionInfo", accesses |-> <<Access(InfoFields, {}, TRUE, "none")>>]}
    \cup {[op |-> "initiateHolePunch", accesses |-> initiateHolePunchAccesses(local)]
          : local \in BOOLEAN}

\* the calls of the receiver thread
ReceiverCalls ==
    {[op |-> "handleHolePunchRequest", accesses |-> handleHolePunchRequestAccesses(local)]
     : local \in BOOLEAN}

\* the access thread t stands at
AccessOf(t) == arg[t].accesses[arg[t].i]

\* thread t is inside an access
Inside(t) == pc[t] = "inside"

\* two accesses conflict: one writes a member the other reads or writes
Conflict(a, b) ==
    \/ a.writes \cap (b.reads \cup b.writes) # {}
    \/ b.writes \cap a.reads # {}

\* a data race: two threads inside conflicting accesses at once
Race ==
    \E t \in Threads : \E u \in Threads \ {t} :
        Inside(t) /\ Inside(u) /\ Conflict(AccessOf(t), AccessOf(u))

\* thread t enters a call
Called(t, c) ==
    /\ Alive(1)
    /\ pc[t] = "idle"
    /\ pc' = [pc EXCEPT ![t] = "before"]
    /\ arg' = [arg EXCEPT ![t] = [op |-> c.op, accesses |-> c.accesses, i |-> 1]]
    /\ UNCHANGED <<localID, buckets, mutex, ret, now, calls, ticks, hp, call>>
    /\ UNCHANGED <<closest, ix, netVars>>

\* thread t begins its next access: the lock_guard, where the code has one,
\* waits for mutex_
Begin(t) ==
    /\ Alive(1)
    /\ pc[t] = "before"
    /\ AccessOf(t).locked => hp.mutex = NoThread
    /\ hp' = IF AccessOf(t).locked THEN [hp EXCEPT !.mutex = t] ELSE hp
    /\ pc' = [pc EXCEPT ![t] = "inside"]
    /\ UNCHANGED <<localID, buckets, mutex, arg, ret, now, calls, ticks, call>>
    /\ UNCHANGED <<closest, ix, netVars>>

\* thread t ends its access, the lock_guard releases mutex_; the call
\* returns after its last access
End(t, port) ==
    /\ Alive(1)
    /\ pc[t] = "inside"
    /\ LET a == AccessOf(t)
           h == IF a.effect = "bound" THEN Bound(hp, port) ELSE hp
       IN  hp' = IF a.locked THEN [h EXCEPT !.mutex = NoThread] ELSE h
    /\ pc' = [pc EXCEPT ![t] = IF arg[t].i = Len(arg[t].accesses) THEN "idle" ELSE "before"]
    /\ arg' = [arg EXCEPT ![t] = IF arg[t].i = Len(arg[t].accesses) THEN NoArg
                                 ELSE [@ EXCEPT !.i = @ + 1]]
    /\ UNCHANGED <<localID, buckets, mutex, ret, now, calls, ticks, call>>
    /\ UNCHANGED <<closest, ix, netVars>>

\* a data race is undefined behaviour: next to going on with the old or the
\* new value, the process may end
RaceEnds ==
    /\ Alive(1)
    /\ Race
    /\ kad' = [kad EXCEPT ![1].terminated = TRUE]
    /\ UNCHANGED <<rtVars, closest, ix, net, history, stores, injected, callVars>>

NextAccess ==
    \/ \E c \in MainCalls(hp) : Called("main", c)
    \/ \E c \in ReceiverCalls : Called("receiver", c)
    \/ \E t \in Threads : Begin(t)
    \/ \E t \in Threads : End(t, 6000)
    \/ RaceEnds

SpecAccess == InitNat /\ [][NextAccess]_vars

(***************************************************************************)
(* The routing table: collecting calls among adds and removes              *)
(*                                                                         *)
(* findClosestNodes() and getAllNodes() take the table's mutex_ and then   *)
(* visit the buckets in order, each KBucket::getNodes() copying one bucket *)
(* under that bucket's mutex; addNode() and removeNode() of the other      *)
(* thread run between two visits.  A collecting thread keeps its position  *)
(* and the copies made so far in arg, and leaves its result in ret.        *)
(***************************************************************************)
\* KBucket::getNodes: a copy of nodes_
getNodesDoubled(nodes) == nodes \o nodes

getNodes(nodes) == nodes

\* the positions of a thread that holds RoutingTable::mutex_
HoldsTable == {"collect_bucket", "collect_return"}

\* std::lock_guard on RoutingTable::mutex_ can be taken
TableFree == \A t \in Threads : pc[t] \notin HoldsTable

\* the collecting calls: the application's thread looks up (findClosestNodes
\* for ALPHA peers) and lists the table (getAllNodes, a count of 0 standing
\* for no limit), a handler of the receiver thread asks for K_VALUE peers
CollectCalls(t) ==
    IF t = "main"
    THEN {[op |-> "closest", target |-> ZeroID, count |-> ALPHA],
          [op |-> "all", target |-> ZeroID, count |-> 0]}
    ELSE {[op |-> "closest", target |-> FarPeer(K_VALUE), count |-> K_VALUE]}

\* the peers a thread adds meanwhile: the application's thread a peer of its
\* choice or its own ID, the receiver thread the sender of a message
CollectPeers(t) ==
    IF t = "main"
    THEN {Node(id, LocalIP, 4001, now) : id \in {MidPeer, localID}}
    ELSE {Node(id, LocalIP, 4002, now) : id \in {FarPeer(1), FarPeer(K_VALUE + 1)}}

\* thread t calls findClosestNodes or getAllNodes and reaches the lock_guard
\* on the table's mutex_
CollectCalled(t, c) ==
    /\ pc[t] = "idle"
    /\ calls < MaxCalls
    /\ calls' = calls + 1
    /\ pc' = [pc EXCEPT ![t] = "collect_lock"]
    /\ arg' = [arg EXCEPT ![t] = [op |-> c.op, target |-> c.target, count |-> c.count,
                                  bucket |-> 0, collected |-> <<>>]]
    /\ UNCHANGED <<localID, buckets, mutex, ret, now, ticks>>
    /\ UNCHANGED rtFrame

\* the lock_guard on the table's mutex_ is taken
CollectLocked(t) ==
    /\ pc[t] = "collect_lock"
    /\ TableFree
    /\ pc' = [pc EXCEPT ![t] = "collect_bucket"]
    /\ UNCHANGED <<localID, buckets, mutex, arg, ret, now, calls, ticks>>
    /\ UNCHANGED rtFrame

\* one turn of the loop over buckets_: getNodes() locks the bucket, copies
\* it and unlocks; the copy is appended
CollectBucket(t) ==
    /\ pc[t] = "collect_bucket"
    /\ MutexFree(arg[t].bucket)
    /\ arg' = [arg EXCEPT ![t].collected = @ \o getNodes(buckets[arg[t].bucket]),
                          ![t].bucket = @ + 1]
    /\ pc' = [pc EXCEPT ![t] = IF arg[t].bucket + 1 = KEY_BITS THEN "collect_return"
                               ELSE "collect_bucket"]
    /\ UNCHANGED <<localID, buckets, mutex, ret, now, calls, ticks>>
    /\ UNCHANGED rtFrame

\* after the loop: findClosestNodes sorts and resizes, getAllNodes returns
\* the copies as they are; the table's mutex_ is released
CollectReturn(t) ==
    /\ pc[t] = "collect_return"
    /\ LET c == arg[t]
           sorted == sortNodesByDistance(c.collected, c.target)
       IN  ret' = [ret EXCEPT ![t] =
                     [op |-> c.op, collected |-> c.collected,
                      nodes |-> IF c.op = "all" THEN c.collected
                                ELSE IF Len(sorted) > c.count THEN SubSeq(sorted, 1, c.count)
                                ELSE sorted]]
    /\ pc' = [pc EXCEPT ![t] = "idle"]
    /\ arg' = [arg EXCEPT ![t] = NoArg]
    /\ UNCHANGED <<localID, buckets, mutex, now, calls, ticks>>
    /\ UNCHANGED rtFrame

NextCollect ==
    \/ \E t \in Threads : \E c \in CollectCalls(t) : CollectCalled(t, c)
    \/ \E t \in Threads : CollectLocked(t)
    \/ \E t \in Threads : CollectBucket(t)
    \/ \E t \in Threads : CollectReturn(t)
    \/ \E t \in Threads : \E node \in CollectPeers(t) : AddNodeEnter(t, node)
    \/ \E t \in Threads : AddNodeFind(t)
    \/ \E t \in Threads : AddNodeApply(t)
    \/ \E id \in RemoveIDs : RemoveNodeEnter("main", id)
    \/ RemoveNodeBody("main")

SpecCollect == Init /\ [][NextCollect]_vars

(***************************************************************************)
(* The hole puncher: the local connection, datagram by datagram            *)
(*                                                                         *)
(* Both nodes run on one host.  Node 1 calls initiateHolePunch() with the  *)
(* descriptor of node 2; attemptLocalConnection() binds a socket of its    *)
(* own to an ephemeral port and sends "LOCAL_CONNECT" to the target's      *)
(* port, where the target's processMessages() receives it.  Each turn of   *)
(* the retry loop is a step; heard counts the probes the target's receiver *)
(* has taken from its socket during the call.                              *)
(***************************************************************************)
\* for (int attempt = 0; attempt < 5 && !success; ++attempt)
LocalAttempts == 5

\* node 2 as node 1 knows it
LocalTarget == Node(NetID(2), LocalIP, NetPort(2), StartMillis)

\* the probe of attemptLocalConnection
LocalProbe(target) == Datagram(target.ip, target.port, LocalConnect)

\* initiateHolePunch on the local path while attemptLocalConnection runs
LocalPunching(target, port) ==
    [op |-> "initiateHolePunch", pc |-> "local", local |-> TRUE, target |-> target,
     tried |-> <<>>, callbacks |-> <<>>, port |-> port, attempt |-> 0, heard |-> 0]

\* attemptLocalConnection has returned and the callback was invoked
LocalReturned(c, success) ==
    [c EXCEPT !.pc = "done",
              !.tried = localPath(c.target, success).tried,
              !.callbacks = localPath(c.target, success).callbacks]

\* a HOLE_PUNCH_REQUEST from a host outside the model that names the probing
\* socket as its sender's endpoint
ForeignRequest(n, port) ==
    RPCMessage(HOLE_PUNCH_REQUEST, StrangerID, NetID(n), LocalIP, port, <<>>)

InitLocal ==
    /\ RtInit
    /\ buckets = EmptyTable
    /\ closest = NoClosest
    /\ ix = NoIndex
    /\ kad = [n \in NetNodes |-> [Constructed(n) EXCEPT !.running = TRUE]]
    /\ net = {}
    /\ history = {}
    /\ stores = 0
    /\ injected = 0
    /\ call = NoCall
    /\ hp \in {HolePuncherConstructed(HostIP), HolePuncherConstructed(<<>>)}

\* initiateHolePunch(target, callback) for a local target: socket(), bind()
\* to a port of the host's choice, the first sendto
LocalStarted(target, port, o) ==
    /\ call = NoCall
    /\ Alive(1)
    /\ isLocalConnectionOf(hp, target.ip)
    /\ IF o \in Unsent
       THEN /\ call' = LocalReturned(LocalPunching(target, 0), FALSE)
            /\ net' = net
       ELSE /\ call' = LocalPunching(target, port)
            /\ Transmit(net, {LocalProbe(target)})
    /\ UNCHANGED <<rtVars, closest, ix, hp, kad, history, stores, injected>>

\* a turn of the retry loop in which poll() and recvfrom() take a datagram
\* from the probing socket: any datagram is a success
LocalAnswered(dg) ==
    /\ call.op = "initiateHolePunch" /\ call.pc = "local"
    /\ dg \in net
    /\ dg.ip = LocalIP /\ dg.port = call.port
    /\ call' = LocalReturned(call, TRUE)
    /\ Transmit(net \ {dg}, {LocalProbe(call.target)})
    /\ UNCHANGED <<rtVars, closest, ix, hp, kad, history, stores, injected>>

\* a turn of the retry loop in which poll() times out; after the last turn
\* the call returns false
LocalTimedOut ==
    /\ call.op = "initiateHolePunch" /\ call.pc = "local"
    /\ call' = IF call.attempt + 1 = LocalAttempts
               THEN LocalReturned([call EXCEPT !.attempt = @ + 1], FALSE)
               ELSE [call EXCEPT !.attempt = @ + 1]
    /\ Transmit(net, {LocalProbe(call.target)})
    /\ UNCHANGED <<rtVars, closest, ix, hp, kad, history, stores, injected>>

\* one turn of the loop in processMessages on node n, as Deliver; a probe
\* taken from the socket during the call is counted
LocalReceive(n, dg) ==
    /\ dg \in net
    /\ dg.ip = kad[n].ip /\ dg.port = kad[n].port
    /\ Alive(n)
    /\ kad[n].running
    /\ Effect(n, net \ {dg}, Received(kad[n], Deserialize(dg.data), now))
    /\ call' = IF call.op = "initiateHolePunch" /\ call.pc = "local" /\ dg.data = LocalConnect
               THEN [call EXCEPT !.heard = @ + 1] ELSE call
    /\ UNCHANGED <<rtVars, closest, ix, hp, history, stores, injected>>

\* a datagram for a closed or unbound port goes nowhere
LocalUnheard(dg) ==
    /\ ~(call.op = "initiateHolePunch" /\ call.pc = "local" /\ dg.port = call.port)
    /\ Undeliverable(dg)

NextLocal ==
    \/ \E port \in EphemeralPorts : \E o \in {"socket", "bind", "bound"} :
           LocalStarted(LocalTarget, port, o)
    \/ \E dg \in net : LocalAnswered(dg)
    \/ LocalTimedOut
    \/ \E n \in NetNodes : \E dg \in net : LocalReceive(n, dg)
    \/ \E port \in EphemeralPorts : Inject(2, ForeignRequest(2, port))
    \/ \E dg \in net : LocalUnheard(dg)

SpecLocal == InitLocal /\ [][NextLocal]_vars

(***************************************************************************)
(* The specification's own notions, independent of the code's operators    *)
(***************************************************************************)
\* bit i of an ID, bit 0 the most significant bit of byte 0
BitAt(id, i) == (id[(i \div 8) + 1] \div (2 ^ (7 - (i % 8)))) % 2

\* the positions at which two IDs differ (all of them lie in bytes that differ)
DifferingBits(a, b) ==
    UNION { {i \in (8 * (k - 1))..(8 * (k - 1) + 7) : BitAt(a, i) # BitAt(b, i)} :
            k \in {k \in 1..KEY_BYTES : a[k] # b[k]} }

\* b(id): the position of the first 1-bit of local XOR id
FirstDifferingBit(local, id) ==
    LET diff == DifferingBits(local, id)
    IN  CHOOSE i \in diff : \A j \in diff : i <= j

\* a peer is live iff now - last_seen < 15 minutes
Live(node, t) == t - node.lastSeen < 15 * 60 * 1000

\* every place <<bucket, position>> of the table that holds a peer
Places == UNION { {<<b, i>> : i \in 1..Len(buckets[b])} : b \in BucketIndexes }

PeerAt(pl) == buckets[pl[1]][pl[2]]

IdsOf(nodes) == {nodes[i].id : i \in 1..Len(nodes)}

\* the peers of a bucket other than the one with this ID, in order
Others(nodes, id) == SelectSeq(nodes, LAMBDA n : n.id # id)

\* thread t completes KBucket::addNode in this step
AddCompletes(t) == pc[t] = "add_apply" /\ pc'[t] = "idle"

(***************************************************************************)
(* C1: in every reachable state, under any interleaving of add and remove  *)
(* calls, each stored peer ID occurs exactly once in the whole table and   *)
(* sits in the bucket whose index is the position of the first 1-bit of    *)
(* localID XOR id.                                                         *)
(***************************************************************************)
C1_UniqueAndPlaced ==
    /\ \A p, q \in Places : PeerAt(p).id = PeerAt(q).id => p = q
    /\ \A p \in Places :
          /\ PeerAt(p).id # localID
          /\ p[1] = FirstDifferingBit(localID, PeerAt(p).id)

\* both threads have completed an add of the same ID to the same bucket
C1_Witness ==
    /\ ret["main"].op = "add" /\ ret["receiver"].op = "add"
    /\ ret["main"].id = ret["receiver"].id
    /\ ret["main"].result /\ ret["receiver"].result
    /\ \E p \in Places : PeerAt(p).id = ret["main"].id
    /\ \E b \in BucketIndexes : Len(buckets[b]) > 1

(***************************************************************************)
(* C2: no node's routing table ever holds the node's own ID, whatever      *)
(* direct adds, start()/bootstrap with any drawn ID, and inbound RPCs of   *)
(* any type have happened, including RPCs whose sender ID is the           *)
(* receiver's own ID.                                                      *)
(***************************************************************************)
C2_LocalNeverStored ==
    \A n \in NetNodes : \A b \in BucketIndexes :
        \A i \in 1..Len(kad[n].routingTable[b]) : kad[n].routingTable[b][i].id # kad[n].id

\* both nodes run with a peer in their tables, and a node has answered a
\* HOLE_PUNCH_REQUEST whose sender ID is its own: the raw reply is on its
\* way to the port that message claimed
C2_Witness ==
    /\ \A n \in NetNodes : kad[n].running /\ kad[n].routingTable # EmptyTable
    /\ Datagram(LocalIP, SpoofPort, LocalConnectResponse) \in net
    /\ injected > 0

(***************************************************************************)
(* C3: every bucket holds at most K_VALUE = 20 peers in every reachable    *)
(* state, whatever the add/remove calls and their interleaving.            *)
(***************************************************************************)
C3_BucketBound == \A b \in BucketIndexes : Len(buckets[b]) <= K_VALUE

\* a full bucket after adds by both threads, the receiver's turned away
C3_Witness ==
    /\ \E b \in BucketIndexes : Len(buckets[b]) = K_VALUE
    /\ ret["main"].op = "add" /\ ret["main"].branch = "append"
    /\ ret["receiver"].op = "add" /\ ret["receiver"].branch = "reject"


(***************************************************************************)
(* C4: add(q) of an absent ID on a full bucket whose head is not live      *)
(* (now - last_seen >= 15 minutes) removes exactly the head, appends q at  *)
(* the tail, keeps the other K_VALUE - 1 peers in their order and returns  *)
(* true; afterwards get(head.id) is nil, get(q.id) is q, the size is K.    *)
(***************************************************************************)
C4_StaleHeadReplaced ==
    [][\A t \in Threads :
          LET before == buckets[arg[t].bucket]
              after == buckets'[arg[t].bucket]
              q == arg[t].node
          IN  ( /\ AddCompletes(t)
                /\ q.id \notin IdsOf(before)
                /\ Len(before) = K_VALUE
                /\ ~Live(before[1], now) )
              => /\ after = Tail(before) \o <<q>>
                 /\ ret'[t].result = TRUE
                 /\ KBucketGetNode(after, before[1].id) = <<>>
                 /\ KBucketGetNode(after, q.id) = <<q>>
                 /\ Len(after) = K_VALUE
      ]_vars

\* an add has just evicted the head of a full bucket and put its peer last
C4_Witness ==
    \E t \in Threads : \E b \in BucketIndexes :
        /\ ret[t].op = "add" /\ ret[t].result /\ ret[t].evicted # <<>>
        /\ Len(buckets[b]) = K_VALUE
        /\ buckets[b][K_VALUE].id = ret[t].id
        /\ ret[t].evicted[1] \notin IdsOf(buckets[b])

(***************************************************************************)
(* C5: add(q) of an absent ID on a full bucket whose head is live returns  *)
(* false and leaves the bucket's contents and order unchanged, even when   *)
(* some peer behind the head is stale.                                     *)
(***************************************************************************)
C5_LiveHeadRejects ==
    [][\A t \in Threads :
          LET before == buckets[arg[t].bucket]
              q == arg[t].node
          IN  ( /\ AddCompletes(t)
                /\ q.id \notin IdsOf(before)
                /\ Len(before) = K_VALUE
                /\ Live(before[1], now) )
              => /\ buckets' = buckets
                 /\ ret'[t].result = FALSE
      ]_vars

\* an add was turned away by a full bucket with a live head and a stale peer
\* behind it
C5_Witness ==
    \E t \in Threads : \E b \in BucketIndexes :
        /\ ret[t].op = "add" /\ ~ret[t].result /\ ret[t].branch = "reject"
        /\ pc[t] = "idle"
        /\ Len(buckets[b]) = K_VALUE
        /\ ret[t].id \notin IdsOf(buckets[b])
        /\ FirstDifferingBit(localID, ret[t].id) = b
        /\ Live(buckets[b][1], now)
        /\ \E i \in 2..K_VALUE : ~Live(buckets[b][i], now)

(***************************************************************************)
(* C6: add(p) of an ID already in the bucket, full or not, returns true,   *)
(* moves that ID to the tail and leaves the bucket's size and the relative *)
(* order of all other peers unchanged.                                     *)
(***************************************************************************)
C6_PresentMovesToTail ==
    [][\A t \in Threads :
          LET before == buckets[arg[t].bucket]
              after == buckets'[arg[t].bucket]
              p == arg[t].node
          IN  ( /\ AddCompletes(t)
                /\ p.id \in IdsOf(before) )
              => /\ ret'[t].result = TRUE
                 /\ Len(after) = Len(before)
                 /\ after[Len(after)].id = p.id
                 /\ Others(after, p.id) = Others(before, p.id)
                 /\ Len(Others(after, p.id)) = Len(before) - 1
      ]_vars

\* an add of the head's ID to a full bucket has moved it to the tail
C6_Witness ==
    \E t \in Threads : \E b \in BucketIndexes :
        /\ ret[t].op = "add" /\ ret[t].result /\ ret[t].branch = "move"
        /\ ret[t].id = FarPeer(1)
        /\ Len(buckets[b]) = K_VALUE
        /\ buckets[b][K_VALUE].id = ret[t].id
        /\ buckets[b][1].id = FarPeer(2)


(***************************************************************************)
(* C7: closest(target, n) returns exactly min(n, peers in the table)       *)
(* peers in ascending XOR distance to the target, the distances compared   *)
(* as 20-byte big-endian values; every peer left out is farther than every *)
(* peer returned; the table is not modified.                               *)
(***************************************************************************)
\* the XOR of two bytes, bit by bit
XorOfBytes(x, y) ==
    LET bit(v, i) == (v \div (2 ^ i)) % 2
        d(i) == IF bit(x, i) # bit(y, i) THEN 2 ^ i ELSE 0
    IN  d(0) + d(1) + d(2) + d(3) + d(4) + d(5) + d(6) + d(7)

\* d(a, b) = a XOR b
XorDistance(a, b) == [k \in 1..KEY_BYTES |-> XorOfBytes(a[k], b[k])]

\* x < y as 20-byte big-endian numbers
BigEndianLess(x, y) ==
    \E k \in 1..KEY_BYTES : x[k] < y[k] /\ \A j \in 1..(k - 1) : x[j] = y[j]

\* peer a is strictly nearer to the target than peer b
Nearer(a, b, target) ==
    BigEndianLess(XorDistance(a.id, target), XorDistance(b.id, target))

AllPeers == {PeerAt(p) : p \in Places}

C7_ClosestSorted ==
    [][closest'.call # closest.call =>
          LET got == closest'.nodes
              target == closest'.target
              returned == {got[i] : i \in 1..Len(got)}
          IN  /\ Len(got) = IF closest'.count < Cardinality(AllPeers)
                            THEN closest'.count ELSE Cardinality(AllPeers)
              /\ Cardinality(returned) = Len(got)
              /\ returned \subseteq AllPeers
              /\ \A i \in 1..(Len(got) - 1) : Nearer(got[i], got[i + 1], target)
              /\ \A out \in AllPeers \ returned : \A in \in returned : Nearer(in, out, target)
              /\ buckets' = buckets
      ]_vars

\* a closest() call that had to reorder and to cut: ALPHA peers out of a
\* table of more, the first of them not the first of its bucket
C7_Witness ==
    /\ closest.call > 0
    /\ closest.count = ALPHA
    /\ Len(closest.nodes) = ALPHA
    /\ Cardinality(AllPeers) > ALPHA
    /\ closest.nodes[1].id = FarPeer(K_VALUE)
    /\ \E b \in BucketIndexes : Len(buckets[b]) = K_VALUE /\ buckets[b][1].id = FarPeer(1)


(***************************************************************************)
(* C8: for every ID x other than the local ID L, bucket_index(x) is the    *)
(* index (0 = most significant bit of byte 0) of the first bit at which x  *)
(* and L differ, so it lies in 0..159; for x = L the index is 159.         *)
(***************************************************************************)
C8_BucketIndex ==
    ix.done =>
        IF ix.id # ix.local
        THEN /\ ix.index \in 0..159
             /\ BitAt(ix.id, ix.index) # BitAt(ix.local, ix.index)
             /\ \A j \in 0..(ix.index - 1) : BitAt(ix.id, j) = BitAt(ix.local, j)
        ELSE ix.index = 159

\* an index in the middle of the range, for an ID that differs from a mixed
\* local ID in that bit and in every later one
C8_Witness ==
    /\ ix.done
    /\ ix.local # ZeroID /\ ix.local # FarPeer(1)
    /\ ix.index = 77
    /\ \A j \in 77..159 : BitAt(ix.id, j) # BitAt(ix.local, j)

\* the node holds value under the printable form of the key bytes
Holds(k, key, value) ==
    /\ DHTKeyToString(key) \in DOMAIN k.storage
    /\ k.storage[DHTKeyToString(key)] = value

\* some node has called store(key, value)
WasStored(key, value) == \E h \in history : h[2] = key /\ h[3] = value

(***************************************************************************)
(* C9: whatever find_value(k) delivers from a node's local store is a      *)
(* value v that some node passed to store(k, v) with the same key bytes,   *)
(* and every record a node holds is one that was stored: its key is the    *)
(* printable form of a stored key and its value is the value stored with   *)
(* that key.                                                               *)
(***************************************************************************)
C9_OnlyStoredValues ==
    \A n \in NetNodes :
        /\ \A key \in StoreKeys :
              findValue(kad[n], key).success => WasStored(key, findValue(kad[n], key).value)
        /\ \A keyStr \in DOMAIN kad[n].storage :
              \E h \in history : /\ DHTKeyToString(h[2]) = keyStr
                                 /\ h[3] = kad[n].storage[keyStr]

\* the STORE datagram store(key, value) on node 1 sends to node 2
StoreDatagram(key, value) ==
    Datagram(LocalIP, NetPort(2),
             Serialize(RPCMessage(STORE, NetID(1), NetID(2), LocalIP, NetPort(1), key \o value)))

(***************************************************************************)
(* C10: when store(k, v) on node 1 is the only store so far and its STORE  *)
(* datagram is delivered to node 2, then afterwards node 1 and node 2 both *)
(* hold k -> v and find_value(k) on node 2 returns exactly v, for every    *)
(* key and value whatever their lengths.                                   *)
(***************************************************************************)
C10_RoundTrip ==
    [][\A key \in StoreKeys : \A value \in StoreValues :
          (history = {<<1, key, value>>} /\ Deliver(2, StoreDatagram(key, value)))
          => /\ Holds(kad'[1], key, value)
             /\ Holds(kad'[2], key, value)
             /\ findValue(kad'[2], key).success
             /\ findValue(kad'[2], key).value = value]_vars

\* the round trip where it works: "a" -> "x" stored on node 1, delivered to
\* node 2 and held by both
C10_EqualLengthsHeld ==
    /\ history = {<<1, <<97>>, <<120>>>>}
    /\ Holds(kad[1], <<97>>, <<120>>)
    /\ Holds(kad[2], <<97>>, <<120>>)

\* the peers a store() call found that its host can send to
Reachable(c) == {i \in 1..Len(c.peers) : c.peers[i].id \notin c.before.refused}

\* the STORE datagram a store() call addresses to a peer
StoreTo(c, peer) ==
    Datagram(peer.ip, peer.port,
             Serialize(RPCMessage(STORE, c.before.id, peer.id, c.before.ip, c.before.port,
                                  c.key \o c.value)))

(***************************************************************************)
(* C11: a store(k, v) whose node lookup found a non-empty peer set P       *)
(* inserts k -> v locally and hands one STORE to sendto for every peer of  *)
(* P the host can send to; the callback is invoked exactly once, with      *)
(* success = true exactly when every send succeeded, so one failed send    *)
(* reports false while the record is in the local store.                   *)
(***************************************************************************)
C11_StoreReportsSends ==
    (call.op = "store" /\ call.peers # <<>>) =>
        /\ Holds(call.after, call.key, call.value)
        /\ Len(call.callbacks) = 1
        /\ call.callbacks[1].success = (Reachable(call) = 1..Len(call.peers))
        /\ \A i \in 1..Len(call.peers) :
               (StoreTo(call, call.peers[i]) \in call.sent) <=> (i \in Reachable(call))

\* a store to three peers of which one cannot be sent to: false is
\* reported and the record is held
C11_Witness ==
    /\ call.op = "store"
    /\ Len(call.peers) = ALPHA
    /\ Cardinality(Reachable(call)) = ALPHA - 1
    /\ call.callbacks = <<[success |-> FALSE, value |-> call.value]>>
    /\ Holds(kad[call.node], call.key, call.value)

(***************************************************************************)
(* C12: in every state a thread holding the store mutex can observe, the   *)
(* value map and the timestamp map of a node have the same key set: the    *)
(* inserts of store() and of a received STORE and the deletes of expire    *)
(* update both maps inside one critical section.                           *)
(***************************************************************************)
C12_MapsAgree ==
    \A n \in NetNodes : DOMAIN kad[n].storage = DOMAIN kad[n].storageTimestamps

\* expireKeys removed one record of a node and left another
C12_Witness ==
    /\ call.op = "expireKeys"
    /\ DOMAIN call.after.storage # DOMAIN call.before.storage
    /\ call.after.storage # EmptyMap
    /\ kad[call.node].storage = call.after.storage

\* the records a map of insertion times holds at time t that are more than
\* 24 hours old, by integer arithmetic
Overdue(timestamps, t) ==
    {key \in DOMAIN timestamps : t - timestamps[key] > 24 * 60 * 60 * 1000}

(***************************************************************************)
(* C13: expire removes exactly the records with now - inserted_ms > 24h    *)
(* and leaves every other record as it was, whatever the two times are: a  *)
(* record exactly 24 h old is kept, and so is a record whose inserted_ms   *)
(* is later than now.                                                      *)
(***************************************************************************)
C13_ExpireExactly ==
    call.op = "expireKeys" =>
        /\ DOMAIN call.after.storage
               = DOMAIN call.before.storage
                     \ Overdue(call.before.storageTimestamps, call.at)
        /\ \A key \in DOMAIN call.after.storage :
               /\ call.after.storage[key] = call.before.storage[key]
               /\ call.after.storageTimestamps[key] = call.before.storageTimestamps[key]

\* expireKeys ran on a record exactly 24 hours old and kept it, and removed
\* nothing
C13_ExactlyADayKept ==
    /\ call.op = "expireKeys"
    /\ \E key \in DOMAIN call.before.storageTimestamps :
           call.at - call.before.storageTimestamps[key] = 24 * 60 * 60 * 1000
    /\ call.after = call.before

\* the bucket of node state k the ID belongs to
BucketOf(k, id) == k.routingTable[FirstDifferingBit(k.id, id)]

\* the descriptors node state k holds under the ID, anywhere in its table
EntriesOf(k, id) ==
    UNION { {k.routingTable[b][i] : i \in {i \in 1..Len(k.routingTable[b]) :
                                              k.routingTable[b][i].id = id}}
            : b \in BucketIndexes }

\* the bucket of the ID holds K peers, none of them the ID, and a live head
FullAndLive(k, id, t) ==
    /\ Len(BucketOf(k, id)) = 20
    /\ id \notin IdsOf(BucketOf(k, id))
    /\ Live(Head(BucketOf(k, id)), t)

\* node 1 handles the datagram of message m in this step
Handles(m) == Deliver(1, Datagram(LocalIP, NetPort(1), Serialize(m)))

\* the descriptor handleRPC builds for the sender of m at time t
SenderOf(m, t) == [id |-> m.sender, ip |-> m.senderIP, port |-> m.senderPort, lastSeen |-> t]

(***************************************************************************)
(* C14 as stated: after the inbound handler has processed an RPC of any    *)
(* type from a sender whose ID differs from the local ID, the routing      *)
(* table holds the sender's ID with the ip and port of the message and     *)
(* last_seen the handling time, whatever the sender's bucket held before.  *)
(***************************************************************************)
C14_SenderAlwaysPresent ==
    [][\A m \in UpsertMessages(1) :
           Handles(m) => EntriesOf(kad'[1], m.sender) = {SenderOf(m, now)}]_vars

(***************************************************************************)
(* C14 amended: after the inbound handler has processed an RPC of any type *)
(* from a sender whose ID differs from the local ID, the routing table     *)
(* holds the sender's ID with the ip and port of the message and last_seen *)
(* the handling time - unless the sender's bucket held K peers, none of    *)
(* them the sender, and a live head: then the table is as it was.          *)
(***************************************************************************)
C14_SenderPresentUnlessFull ==
    [][\A m \in UpsertMessages(1) :
           Handles(m) =>
               IF FullAndLive(kad[1], m.sender, now)
               THEN kad'[1].routingTable = kad[1].routingTable
               ELSE EntriesOf(kad'[1], m.sender) = {SenderOf(m, now)}]_vars

\* node 1 holds all K peers of a full bucket, the sender of a handled RPC
\* among them at the tail with the endpoint of its message
C14_Witness ==
    /\ Len(kad[1].routingTable[0]) = 20
    /\ \E j \in UpsertSenders :
           /\ kad[1].routingTable[0][20].id = FarPeer(j)
           /\ kad[1].routingTable[0][20].ip = OtherIP
           /\ kad[1].routingTable[0][20].port = NetPort(j + 100)

\* the IDs of the peers node state k knows
Known(k) == UNION {IdsOf(k.routingTable[b]) : b \in BucketIndexes}

\* the smaller of two numbers
Min(a, b) == IF a < b THEN a ELSE b

(***************************************************************************)
(* C15: a node lookup on a node that knows peers completes with k_closest, *)
(* the K = 20 closest peers among its seeds and the peers learned from the *)
(* replies of its rounds: it returns 20 peers whenever at least 20 are     *)
(* known, and all known peers when they are fewer.                         *)
(***************************************************************************)
C15_LookupReturnsKClosest ==
    (call.op = "nodeLookup" /\ Known(call.before) # {}) =>
        /\ Len(call.callbacks) = 1
        /\ call.callbacks[1].success
        /\ Len(call.callbacks[1].nodes) >= Min(20, Cardinality(Known(call.before)))

\* a lookup on a node that knows two peers returns both
C15_FewPeersReturned ==
    /\ call.op = "nodeLookup"
    /\ Cardinality(Known(call.before)) = 2
    /\ call.callbacks[1].success
    /\ IdsOf(call.callbacks[1].nodes) = Known(call.before)

\* the FIND_VALUE reply by which node 2 returns value to node 1
ValueReply(value) ==
    Datagram(LocalIP, NetPort(1),
             Serialize(RPCMessage(FIND_VALUE, NetID(2), NetID(1), LocalIP, NetPort(2), value)))

(***************************************************************************)
(* C16: find_value(k) for a key the node does not hold, one of whose       *)
(* queried peers holds k -> v and answers, completes with success = true   *)
(* and the value v, and reports not-found only when no queried peer        *)
(* returned a value: once node 1 has received the reply of node 2 carrying *)
(* "x" for "a", every report its call has made is success with "x".        *)
(***************************************************************************)
C16_ValueLookupFinds ==
    [][(/\ call.op = "findValue"
        /\ call.key = <<97>>
        /\ NetID(2) \in IdsOf(call.peers)
        /\ Deliver(1, ValueReply(<<120>>)))
       => \A i \in 1..Len(call'.callbacks) :
              call'.callbacks[i] = [success |-> TRUE, value |-> <<120>>]]_vars

(***************************************************************************)
(* C17: a node lookup started while the routing table is empty fails: the  *)
(* callback is invoked exactly once, with success = false and an empty     *)
(* peer list, no RPC is sent, and the routing table is unchanged.          *)
(***************************************************************************)
C17_EmptyTableLookupFails ==
    (call.op = "nodeLookup" /\ Known(call.before) = {}) =>
        /\ call.callbacks = <<[success |-> FALSE, nodes |-> <<>>]>>
        /\ call.sent = {}
        /\ call.after.routingTable = call.before.routingTable

\* a lookup was made on an empty table: the table is still empty and the
\* network carries nothing
C17_Witness ==
    /\ call.op = "nodeLookup"
    /\ Known(call.before) = {}
    /\ Len(call.callbacks) = 1
    /\ Known(kad[call.node]) = {}
    /\ net = {}

(***************************************************************************)
(* C20: the RPC codec round-trips: for every RPCMessage m, the datagram    *)
(* sendRPC writes for m parses in processMessages to a message equal to m  *)
(* in all six fields, the payload being everything after the fifth ':' to  *)
(* the end of the datagram, ':' and 0x00 bytes included.                   *)
(***************************************************************************)
C20_CodecRoundTrip ==
    call.op = "parsed" =>
        /\ call.parsed.outcome = "message"
        /\ call.parsed.message = call.message

\* a message whose payload is "x" was parsed back as it was sent
C20_PlainPayloadKept ==
    /\ call.op = "parsed"
    /\ call.message.payload = <<120>>
    /\ call.parsed.outcome = "message"
    /\ call.parsed.message = call.message

\* the local IP the classification of a call compares with: the one
\* detected at construction, else the one of the bound test socket
LocalIPOf(c) ==
    IF c.before.connectionInfo.localIP # <<>> THEN c.before.connectionInfo.localIP
    ELSE <<48, 46, 48, 46, 48, 46, 48>>

\* the specified decision order on the outcomes of the two queries
Specified(localIP, A, B) ==
    IF A = <<>> THEN "UNKNOWN"
    ELSE IF A[1].ip = localIP THEN "OPEN"
    ELSE IF B.outcome # "answer" THEN "PORT_RESTRICTED"
    ELSE IF A[1] = B.endpoint THEN "FULL_CONE"
    ELSE "SYMMETRIC"

(***************************************************************************)
(* C19: NAT classification follows the specified decision order for every  *)
(* combination of STUN outcomes: Unknown if query A fails; otherwise Open  *)
(* if E1.ip is the local IP, whatever server B does; otherwise             *)
(* PortRestricted if B yields no answer (unresolvable, send failure,       *)
(* timeout, unparsable reply); otherwise FullCone if E1 = E2 in ip and     *)
(* port, else Symmetric; never Restricted.                                 *)
(***************************************************************************)
C19_DecisionOrder ==
    (call.op = "detectNATType" /\ call.run.local = "ok") =>
        /\ call.result = Specified(LocalIPOf(call), call.run.A, call.run.B)
        /\ call.result # "RESTRICTED"

\* a classification in which the second server answered with another
\* mapping than the first: Symmetric, recorded in the connection info
C19_SecondAnswerDecides ==
    /\ call.op = "detectNATType"
    /\ call.run.A # <<>>
    /\ call.run.B.outcome = "answer"
    /\ call.run.B.endpoint # call.run.A[1]
    /\ call.result = "SYMMETRIC"
    /\ hp.connectionInfo.natType = "SYMMETRIC"

\* the methods of the general path in their order
Methods == <<"direct", "stun", "tcp">>

(***************************************************************************)
(* C18: on the general (non-local) path initiateHolePunch tries direct     *)
(* UDP, then STUN-assisted UDP, then TCP simultaneous-open, strictly in    *)
(* that order, starting a method only after every earlier one has failed;  *)
(* the callback is invoked exactly once per call, with (true, target.ip,   *)
(* target.port) at the first method that succeeds or with (false, "", 0)   *)
(* after all three have failed, and not before.                            *)
(***************************************************************************)
C18_MethodsInOrder ==
    (call.op = "initiateHolePunch" /\ ~call.local) =>
        /\ Len(call.tried) <= 3
        /\ \A i \in 1..Len(call.tried) :
               /\ call.tried[i].method = Methods[i]
               /\ i < Len(call.tried) => ~call.tried[i].success
        /\ IF call.tried # <<>> /\ call.tried[Len(call.tried)].success
           THEN /\ call.pc = "done"
                /\ call.callbacks = <<[success |-> TRUE, ip |-> call.target.ip,
                                       port |-> call.target.port]>>
           ELSE IF Len(call.tried) = 3
           THEN /\ call.pc = "done"
                /\ call.callbacks = <<[success |-> FALSE, ip |-> <<>>, port |-> 0]>>
           ELSE /\ call.pc = Methods[Len(call.tried) + 1]
                /\ call.callbacks = <<>>

\* a hole punch whose direct attempt failed and whose STUN-assisted attempt
\* succeeded: the callback was invoked once, with the target's endpoint
C18_Witness ==
    /\ call.op = "initiateHolePunch"
    /\ ~call.local
    /\ Len(call.tried) = 2
    /\ call.tried[2].success
    /\ Len(call.callbacks) = 1
    /\ call.callbacks[1].success
    /\ call.target.id \in hp.pendingHolePunches

\* a non-empty run of decimal digits
Numeric(str) == str # <<>> /\ \A i \in 1..Len(str) : str[i] \in 48..57

\* exactly 40 hex digits of either case
HexDigits40(str) ==
    /\ Len(str) = 40
    /\ \A i \in 1..40 : str[i] \in (48..57) \cup (97..102) \cup (65..70)

\* the text is no RPC: fewer than six fields, a type or port that is no
\* number, a sender or receiver that is no ID, a FIND_NODE without a target ID
Unparsable(data) ==
    LET f == SplitFrom(data, 1)
    IN  \/ Len(f) < 6
        \/ ~Numeric(f[1]) \/ ~Numeric(f[5])
        \/ ~HexDigits40(f[2]) \/ ~HexDigits40(f[3])
        \/ f[1] = to_string(FIND_NODE) /\ ~HexDigits40(f[6])

(***************************************************************************)
(* C21: a received datagram that cannot be parsed as an RPC (fewer than    *)
(* six fields, a non-numeric type or port, a sender or receiver that is    *)
(* not 40 hex digits, a FIND_NODE payload that is not a 40-hex-digit ID)   *)
(* is dropped silently: no reply is sent, the local store is unchanged     *)
(* and the receiver keeps running to handle later datagrams.               *)
(***************************************************************************)
C21_UnparsableDropped ==
    (call.op = "processMessages" /\ Unparsable(call.data)) =>
        /\ call.sent = {}
        /\ call.after.storage = call.before.storage
        /\ call.after.storageTimestamps = call.before.storageTimestamps
        /\ call.after.running
        /\ ~call.after.terminated

\* a datagram of fewer than six fields was received and left the node as it was
C21_ShortDatagramSkipped ==
    /\ call.op = "processMessages"
    /\ Len(SplitFrom(call.data, 1)) < 6
    /\ call.sent = {}
    /\ call.after = call.before
    /\ call.after.running /\ ~call.after.terminated

\* the value of a hex digit of either case
HexValue(c) == IF c <= 57 THEN c - 48 ELSE IF c <= 70 THEN c - 55 ELSE c - 87

\* the ID that 40 hex digits denote
IDOfHex(str) ==
    [i \in 1..20 |-> (16 * HexValue(str[(2 * i) - 1])) + HexValue(str[2 * i])]

(***************************************************************************)
(* C23: constructing an ID from a hex string fails whenever the string is  *)
(* not exactly 40 characters long or holds a character outside             *)
(* [0-9a-fA-F] at any position, and succeeds, in either case of the        *)
(* letters, for every string of 40 hex digits.                             *)
(***************************************************************************)
C23_HexConstruction ==
    call.op = "NodeID" =>
        IF HexDigits40(call.hex)
        THEN call.result.ok /\ call.result.id = IDOfHex(call.hex)
        ELSE ~call.result.ok

\* 40 hex digits with an upper-case letter among them gave their ID
C23_MixedCaseAccepted ==
    /\ call.op = "NodeID"
    /\ HexDigits40(call.hex)
    /\ \E p \in 1..40 : call.hex[p] = 70
    /\ call.result.ok /\ call.result.id = IDOfHex(call.hex)

\* every byte is printable ASCII and there is at least one
AllPrintable(data) == data # <<>> /\ \A i \in 1..Len(data) : data[i] \in 32..126

\* two lower-case hex digits for a byte
TwoHex(b) ==
    LET digit(v) == IF v < 10 THEN 48 + v ELSE 97 + (v - 10)
    IN  <<digit(b \div 16), digit(b % 16)>>

RECURSIVE HexForm(_)
HexForm(data) == IF data = <<>> THEN <<>> ELSE TwoHex(Head(data)) \o HexForm(Tail(data))

(***************************************************************************)
(* C24: a non-empty key whose bytes all lie in [0x20, 0x7E] prints as      *)
(* exactly those characters, with no 0x prefix added; every other key      *)
(* prints as 0x followed by two lower-case hex digits per byte; and the    *)
(* key rebuilt from the printable form of an all-printable key has the     *)
(* original bytes.                                                         *)
(***************************************************************************)
C24_PrintableForm ==
    call.op = "toString" =>
        IF AllPrintable(call.data)
        THEN call.text = call.data /\ call.rebuilt = call.data
        ELSE call.text = <<48, 120>> \o HexForm(call.data)

\* the key "0x~" was printed as itself and rebuilt from its text
C24_Witness ==
    /\ call.op = "toString"
    /\ call.data = <<48, 120, 126>>
    /\ call.text = call.data
    /\ call.rebuilt = call.data

\* dotted decimal of the four bytes of an address, given as its two halves
Dotted(a) ==
    to_string(a[1] \div 256) \o <<46>> \o to_string(a[1] % 256) \o <<46>>
    \o to_string(a[2] \div 256) \o <<46>> \o to_string(a[2] % 256)

(***************************************************************************)
(* C25: for every IPv4 address a and port p, a Binding response (type      *)
(* 0x0101, magic cookie 0x2112A442) whose only attribute is an IPv4        *)
(* XOR-MAPPED-ADDRESS carrying p XOR 0x2112 and a XOR 0x2112A442 parses to *)
(* exactly (a, p), all arithmetic on 16/32-bit unsigned values.            *)
(***************************************************************************)
C25_XorMappedInverted ==
    (call.op = "parseStunResponse" /\ call.kind = "xor") =>
        call.result = [ok |-> TRUE, ip |-> Dotted(call.address), port |-> call.port]

\* 255.128.0.33 port 32768, whose top bits are set before and after the XOR, was parsed
C25_Witness ==
    /\ call.op = "parseStunResponse"
    /\ call.kind = "xor"
    /\ call.address = <<65408, 33>>
    /\ call.port = 32768
    /\ call.result.ok
    /\ call.result.ip = <<50, 53, 53, 46, 49, 50, 56, 46, 48, 46, 51, 51>>
    /\ call.result.port = 32768

\* the peers node state k holds, anywhere in its table
PeersOf(k) ==
    UNION { {k.routingTable[b][i] : i \in 1..Len(k.routingTable[b])} : b \in BucketIndexes }

\* the count peers of the set nearest to the target, nearest first
NearestFirst(peers, target, count) ==
    LET rank(p) == Cardinality({q \in peers : Nearer(q, p, target)}) + 1
    IN  [i \in 1..Min(count, Cardinality(peers)) |-> CHOOSE p \in peers : rank(p) = i]

\* one line "<id-hex>:<ip>:<port>" for each peer
RECURSIVE Listing(_)
Listing(peers) ==
    IF peers = <<>> THEN <<>>
    ELSE LET p == Head(peers)
         IN  HexForm(p.id) \o <<58>> \o p.ip \o <<58>> \o to_string(p.port) \o <<10>>
             \o Listing(Tail(peers))

\* the datagram that carries node state k's reply of that type to the sender of m
ReplyTo(k, m, type, payload) ==
    Datagram(m.senderIP, m.senderPort,
             Serialize(RPCMessage(type, k.id, m.sender, k.ip, k.port, payload)))

\* the node handled the datagram of request m
Answered(m) == call.op = "processMessages" /\ call.data = Serialize(m)

(***************************************************************************)
(* C30: on a received FIND_NODE carrying target t the handler sends the    *)
(* sender one reply listing exactly min(K, number of peers in the routing  *)
(* table) peers, those closest to t in ascending XOR distance; the local   *)
(* store is not modified.                                                  *)
(***************************************************************************)
C30_FindNodeAnswered ==
    \A m \in AnswerMessages(1) :
        (Answered(m) /\ m.type = FIND_NODE) =>
            /\ call.sent =
                   {ReplyTo(call.after, m, FIND_NODE,
                            Listing(NearestFirst(PeersOf(call.after), IDOfHex(m.payload), 20)))}
            /\ call.after.storage = call.before.storage
            /\ call.after.storageTimestamps = call.before.storageTimestamps

\* a FIND_NODE from a peer of the full bucket 0 was answered with 20 of the
\* 21 peers of the table
C30_TwentyOfTwentyOne ==
    \E m \in AnswerMessages(1) :
        /\ Answered(m) /\ m.type = FIND_NODE
        /\ Cardinality(PeersOf(call.after)) = 21
        /\ call.sent =
               {ReplyTo(call.after, m, FIND_NODE,
                        Listing(NearestFirst(PeersOf(call.after), IDOfHex(m.payload), 20)))}

\* node state k's local store holds a record under the key bytes
HoldsKey(k, key) == DHTKeyToString(key) \in DOMAIN k.storage

(***************************************************************************)
(* C29: on a received FIND_VALUE carrying key bytes k the handler sends    *)
(* exactly one FIND_VALUE response to the sender: the stored value if the  *)
(* local store holds k, otherwise the list of '<id-hex>:<ip>:<port>'       *)
(* entries, one per line, for the up-to-K peers closest to SHA1(k); the    *)
(* local store is not modified.                                            *)
(***************************************************************************)
C29_FindValueAnswered ==
    \A m \in AnswerMessages(1) :
        (Answered(m) /\ m.type = FIND_VALUE) =>
            /\ call.sent =
                   {ReplyTo(call.after, m, FIND_VALUE,
                            IF HoldsKey(call.before, m.payload)
                            THEN call.before.storage[DHTKeyToString(m.payload)]
                            ELSE Listing(NearestFirst(PeersOf(call.after),
                                                      hashKey(m.payload), 20)))}
            /\ call.after.storage = call.before.storage
            /\ call.after.storageTimestamps = call.before.storageTimestamps

\* a FIND_VALUE for the held key "a" was answered with its value "x" in a
\* FIND_VALUE message
C29_HeldValueSent ==
    \E m \in AnswerMessages(1) :
        /\ Answered(m) /\ m.type = FIND_VALUE
        /\ HoldsKey(call.before, m.payload)
        /\ call.sent = {ReplyTo(call.after, m, FIND_VALUE, <<120>>)}
        /\ call.after.storage = call.before.storage

(***************************************************************************)
(* C27: every request/response exchange is finite: after a single ping()   *)
(* or a single FIND_NODE lookup round between two running nodes, with no   *)
(* further application calls, the network eventually carries no more       *)
(* messages: a reply is never handled as a new request that triggers       *)
(* another reply.                                                          *)
(***************************************************************************)
C27_RepliesUnanswered ==
    (call # NoCall /\ call.op \in {"ping", "findNode"}) => call.replies <= 1


\* C22: once stop() has cleared running_ and waits in a join, the message
\* thread and the maintenance thread can still come to their exit: the
\* process has not been terminated, the maintenance thread does not wait for
\* a mutex it owns, and the message thread does not wait for a mutex that is
\* never released
C22_ShutdownTerminates ==
    pc["main"] \in {"join_message", "join_maintenance"} =>
        /\ ~kad[1].terminated
        /\ pc["maintenance"] # "relock"
        /\ pc["message"] # "lock"

\* stop() has returned: both threads left their loops and both joins completed
C22_StopReturned ==
    /\ pc["main"] = "returned"
    /\ pc["message"] = "exited"
    /\ pc["maintenance"] = "exited"
    /\ arg["maintenance"].cycles = 1

\* C26: republishKeys never comes to store()'s lock_guard on storageMutex_
\* while it holds the mutex itself; it completes and releases the mutex, and
\* no thread waits for the mutex for ever
C26_RepublishNeverRelocks ==
    /\ ~arg["maintenance"].relocked
    /\ pc["maintenance"] \notin {"relock", "thrown"}
    /\ pc["message"] # "lock"
    /\ (kad[1].storageMutex # NoThread => pc["maintenance"] = "republish")

\* republishKeys has completed on a non-empty store with an empty routing
\* table: no store() went past its lookup
C26_RepublishedWithoutPeers ==
    /\ pc["maintenance"] = "expire"
    /\ DOMAIN kad[1].storage # {}
    /\ Known(kad[1]) = {}
    /\ kad[1].storageMutex = NoThread
    /\ ~arg["maintenance"].relocked

\* C28: in each maintenance cycle refreshBuckets (one lookup per bucket index
\* 0..159, in index order), republishKeys and expireKeys return in this
\* order, and while running_ is set the thread is never held for ever inside
\* a cycle, so the next cycle follows
C28_CyclesInOrder ==
    LET m == arg["maintenance"]
        order == <<"refreshBuckets", "republishKeys", "expireKeys">>
    IN  /\ m.phases = SubSeq(order, 1, Len(m.phases))
        /\ (m.phases # <<>> =>
               m.lookups = [j \in 1..KEY_BITS |-> refreshTarget(kad[1].id, j - 1)])
        /\ (kad[1].running /\ Alive(1) => pc["maintenance"] # "relock")

\* a second cycle has begun after a complete first one, the flag still set
C28_SecondCycle ==
    /\ kad[1].running
    /\ pc["maintenance"] = "refresh"
    /\ arg["maintenance"].cycles = 1
    /\ arg["maintenance"].phases = <<>>


(***************************************************************************)
(* C39: store(k, v) on a node whose node lookup found no peer invokes the  *)
(* callback exactly once with success = false, hands no datagram to        *)
(* sendto, and leaves the local store as it was: a findValue(k) on the     *)
(* node afterwards finds k only if the store held it before the call, and  *)
(* then with the value it had.                                             *)
(***************************************************************************)
C39_FailedStoreInsertsNothing ==
    (call.op = "store" /\ call.peers = <<>>) =>
        /\ call.callbacks = <<[success |-> FALSE, value |-> <<>>]>>
        /\ call.sent = {}
        /\ call.after.storage = call.before.storage
        /\ call.after.storageTimestamps = call.before.storageTimestamps
        /\ (DHTKeyToString(call.key) \notin DOMAIN call.before.storage
               => ~findValue(call.after, call.key).success)

\* store("a", "x") was called on a node with an empty routing table: the
\* node holds no record and findValue("a") on it fails
C39_Witness ==
    /\ call.op = "store"
    /\ call.key = <<97>>
    /\ Known(call.before) = {}
    /\ call.peers = <<>>
    /\ DOMAIN kad[call.node].storage = {}
    /\ ~findValue(kad[call.node], call.key).success
    /\ net = {}


(***************************************************************************)
(* C40: right after start() the routing table of a node started without a  *)
(* bootstrap endpoint is empty, the first peer of a node started with one  *)
(* has the supplied endpoint as its ip:port, and no peer of the table has  *)
(* the node's own listening endpoint.                                      *)
(***************************************************************************)
C40_BootstrapOnlyWhenSupplied ==
    call.op = "main" =>
        LET peers == getAllNodes(call.after.routingTable)
        IN  /\ (call.bootstrapIP = <<>> => peers = <<>>)
            /\ (call.bootstrapIP # <<>> =>
                   /\ peers # <<>>
                   /\ peers[1].ip = call.bootstrapIP
                   /\ peers[1].port = call.bootstrapPort)
            /\ \A i \in 1..Len(peers) :
                   ~(peers[i].ip = call.after.ip /\ peers[i].port = call.after.port)

\* a node was started with the other node's endpoint as its bootstrap
\* endpoint and holds one peer
C40_StartedWithEndpoint ==
    /\ call.op = "main"
    /\ call.node = 1
    /\ call.bootstrapIP = LocalIP
    /\ call.bootstrapPort = NetPort(2)
    /\ call.after.running
    /\ Len(getAllNodes(call.after.routingTable)) = 1


(***************************************************************************)
(* C38: the last_seen of a routing-table entry never decreases: when add   *)
(* is called with an ID the bucket holds, the entry's last_seen after the  *)
(* call is the larger of its last_seen before the call and the current     *)
(* time, whatever last_seen the descriptor passed to add carries.          *)
(***************************************************************************)
C38_LastSeenMonotone ==
    [][\A t \in Threads :
          LET b == arg[t].bucket
              q == arg[t].node
              old == buckets[b][FindIf(buckets[b], q.id)].lastSeen
              new == buckets'[b][FindIf(buckets'[b], q.id)].lastSeen
          IN  (AddCompletes(t) /\ q.id \in IdsOf(buckets[b]))
              => new = (IF old > now THEN old ELSE now)
      ]_vars

\* a peer of the table was added again, 15 minutes after the table was
\* filled, with a descriptor built for the call: its entry carries the
\* current time
C38_Witness ==
    \E t \in Threads : \E b \in BucketIndexes :
        /\ ret[t].op = "add" /\ ret[t].branch = "move"
        /\ pc[t] = "idle"
        /\ now > StartMillis
        /\ buckets[b] # <<>>
        /\ buckets[b][Len(buckets[b])].id = ret[t].id
        /\ buckets[b][Len(buckets[b])].lastSeen = now


(***************************************************************************)
(* C37: in NAT classification the request to server B leaves from the      *)
(* local UDP port whose mapping server A reported as E1, and B is another  *)
(* entry of the server list than the A that answered the first query.      *)
(***************************************************************************)
C37_SamePortOtherServer ==
    (call # NoCall /\ call.op = "detectNATType" /\ call.second # <<>>) =>
        /\ call.second[1].port = call.first[1].port
        /\ STUN_SERVERS[call.second[1].server] # STUN_SERVERS[call.first[1].server]

\* the first server answered, the OS gave the test socket the port of the
\* first query's closed socket, the second server reported the same mapping:
\* FULL_CONE
C37_Witness ==
    /\ call # NoCall /\ call.op = "detectNATType" /\ call.at = "done"
    /\ call.first = <<Query(1, 6000)>>
    /\ call.second = <<Query(2, 6000)>>
    /\ call.B # <<>> /\ call.B[1].outcome = "answer"
    /\ call.B[1].endpoint = call.E1[1]
    /\ call.result = "FULL_CONE"
    /\ hp.connectionInfo.localPort = 6000


\* the STORE datagram node state k addresses to a peer for key and value
StoreOf(k, peer, key, value) ==
    Datagram(peer.ip, peer.port,
             Serialize(RPCMessage(STORE, k.id, peer.id, k.ip, k.port, key \o value)))

\* the FIND_NODE datagram of the lookup store() makes for the key
LookupOf(k, peer, key) ==
    Datagram(peer.ip, peer.port,
             Serialize(RPCMessage(FIND_NODE, k.id, peer.id, k.ip, k.port,
                                  NodeIDToString(hashKey(key)))))

(***************************************************************************)
(* C31: a republish that returns has re-issued store(k, v) for every       *)
(* record the node held, with the key bytes k and the value v the record   *)
(* was stored under, empty and non-printable keys included: each peer of   *)
(* the node is sent the lookup for the hash of k and a STORE carrying k    *)
(* and v, and the record under k holds v with the time of the republish.   *)
(***************************************************************************)
C31_RepublishSameKey ==
    (call.op = "republishKeys" /\ call.returned) =>
        \A h \in history :
            (h[1] = call.node /\ Holds(call.before, h[2], h[3])) =>
                /\ LET peers == getAllNodes(call.before.routingTable)
                   IN  \A i \in 1..Len(peers) :
                           /\ LookupOf(call.before, peers[i], h[2]) \in call.sent
                           /\ StoreOf(call.before, peers[i], h[2], h[3]) \in call.sent
                /\ Holds(call.after, h[2], h[3])
                /\ call.after.storageTimestamps[DHTKeyToString(h[2])] = call.at

\* the record "a" -> "x" was republished 15 minutes after it was stored:
\* node 2 was sent "a" and "x" again and the record carries the later time
C31_Witness ==
    /\ call.op = "republishKeys" /\ call.returned
    /\ history = {<<1, <<97>>, <<120>>>>}
    /\ call.at > StartMillis
    /\ StoreOf(call.before, Neighbour, <<97>>, <<120>>) \in call.sent
    /\ kad[1].storageTimestamps[<<97>>] = call.at


\* a STORE for the key may have reached node 1 from another host
SentFromOutside(key) == key = <<1>> /\ injected > 0

(***************************************************************************)
(* C32: records of keys with different byte sequences are independent:     *)
(* whatever was stored or received under other keys since, findValue(k)    *)
(* on the node that stored k -> v delivers v, and delivers nothing for a   *)
(* key under which nothing was stored or received.                         *)
(***************************************************************************)
C32_DistinctKeysIndependent ==
    /\ \A h \in history :
           ~SentFromOutside(h[2]) =>
               findValue(kad[h[1]], h[2]).callbacks = <<[success |-> TRUE, value |-> h[3]]>>
    /\ \A key \in RecordKeys :
           ((\A h \in history : h[2] # key) /\ ~SentFromOutside(key))
           => ~findValue(kad[1], key).success

\* records under "a" and under the byte 0x01 are held side by side, each
\* with the value it was stored with
C32_Witness ==
    /\ history = {<<1, <<97>>, <<120>>>>, <<1, <<1>>, <<121>>>>}
    /\ findValue(kad[1], <<97>>).value = <<120>>
    /\ findValue(kad[1], <<1>>).value = <<121>>
    /\ Cardinality(DOMAIN kad[1].storage) = 2


(***************************************************************************)
(* C35: the pending-punches map holds an entry for a target ID exactly     *)
(* while a hole punch to that target is under way on the general path:     *)
(* none before a call and none after a call on the local path, the         *)
(* target's from before the first attempt of the general path on, and      *)
(* none once the callback has been invoked.                                *)
(***************************************************************************)
C35_PendingWhileInProgress ==
    hp.pendingHolePunches =
        IF call.op = "initiateHolePunch" /\ ~call.local /\ call.callbacks = <<>>
        THEN {call.target.id}
        ELSE {}

\* the general path stands before its second attempt, the direct one having
\* failed: the target's entry is in the map and no callback was invoked
C35_Witness ==
    /\ call.op = "initiateHolePunch"
    /\ ~call.local
    /\ call.pc = "stun"
    /\ call.tried = <<[method |-> "direct", success |-> FALSE]>>
    /\ call.callbacks = <<>>
    /\ hp.pendingHolePunches = {call.target.id}


(***************************************************************************)
(* C33: a thread that reads or writes the connection info or the           *)
(* pending-punches map of the hole puncher holds the hole puncher's mutex  *)
(* while it does so, and no read runs at the same time as a write of the   *)
(* same member by another thread.                                          *)
(***************************************************************************)
C33_AccessesUnderMutex ==
    /\ \A t \in Threads : Inside(t) => hp.mutex = t
    /\ ~Race

\* the application's thread holds the mutex inside the final update of
\* detectNATType() while the receiver thread waits to store a public endpoint
C33_Witness ==
    /\ Inside("main") /\ arg["main"].op = "detectNATType" /\ arg["main"].i = 4
    /\ hp.mutex = "main"
    /\ pc["receiver"] = "before" /\ AccessOf("receiver") = StoresPublicEndpoint
    /\ ~Race


\* the IDs of a sequence of descriptors are pairwise different
DistinctIDs(nodes) ==
    \A i \in 1..Len(nodes) : \A j \in 1..Len(nodes) : nodes[i].id = nodes[j].id => i = j

\* the descriptor is stored in the table right now
InTable(node) ==
    \E b \in BucketIndexes : \E i \in 1..Len(buckets[b]) : buckets[b][i] = node

\* what a collecting call holds or returned is free of repeats and of the local ID
CleanResult(nodes) == DistinctIDs(nodes) /\ localID \notin IdsOf(nodes)

\* a thread inside a call can take its next step
CanStep(t) ==
    CASE pc[t] = "collect_lock" -> TableFree
      [] pc[t] = "collect_bucket" -> MutexFree(arg[t].bucket)
      [] OTHER -> pc[t] # "idle"

(***************************************************************************)
(* C34: while the other thread adds and removes peers, closest() and all() *)
(* never hold or return the same peer ID twice nor the local ID; every     *)
(* descriptor they take is in the table at the moment it is copied, which  *)
(* lies within the call, and what they return is among the copies; and     *)
(* whenever some thread is inside a call, some thread inside a call can    *)
(* step: the table mutex and the bucket mutexes never deadlock.            *)
(***************************************************************************)
C34_ConcurrentCollection ==
    /\ [](\A t \in Threads :
            /\ pc[t] \in HoldsTable => CleanResult(arg[t].collected)
            /\ ret[t].op \in {"closest", "all"} =>
                  /\ CleanResult(ret[t].nodes)
                  /\ \A k \in 1..Len(ret[t].nodes) :
                        \E j \in 1..Len(ret[t].collected) : ret[t].collected[j] = ret[t].nodes[k])
    /\ []((\E t \in Threads : pc[t] # "idle") => \E t \in Threads : CanStep(t))
    /\ [][\A t \in Threads :
            pc[t] = "collect_bucket" =>
               \A k \in (Len(arg[t].collected) + 1)..Len(arg'[t].collected) :
                   InTable(arg'[t].collected[k])]_vars

\* a collecting thread is about to return a peer that the other thread has
\* removed or replaced since its bucket was copied
C34_Witness ==
    \E t \in Threads :
        /\ pc[t] = "collect_return"
        /\ \E k \in 1..Len(arg[t].collected) : ~InTable(arg[t].collected[k])


(***************************************************************************)
(* C36: between two running nodes on one host, an initiateHolePunch        *)
(* towards the other node whose probe the target's receiver has taken from *)
(* its socket reports success when it returns.                             *)
(***************************************************************************)
C36_LocalPunchSucceeds ==
    (call.op = "initiateHolePunch" /\ call.pc = "done" /\ call.heard > 0)
        => call.callbacks[1].success

\* the handshake completes when a host outside the two nodes has made the
\* target's HOLE_PUNCH_REQUEST handler answer to the probing socket
C36_Witness ==
    /\ call.op = "initiateHolePunch" /\ call.pc = "done"
    /\ call.callbacks[1].success
    /\ injected > 0

====
